---- MODULE Spec2Model ----
(***************************************************************************)
(* Timesheet export: the Time Data sheet, the per-job "Daily Time Import"  *)
(* export of timesheet_app.py and exports_legacy.py, the day preview and   *)
(* its regular/overtime fallback.                                          *)
(*                                                                         *)
(* Text cells are sequences of one-character strings, so that strip(),     *)
(* upper(), isdigit(), int(), substring tests and the date formats are     *)
(* computed character by character.  The float NaN that pandas puts in an  *)
(* empty cell is the one-token sequence NaN.  Hours are floats: a record   *)
(* [k, v] that is a number or NaN.                                         *)
(***************************************************************************)
EXTENDS Integers, Sequences, FiniteSets, TLC

VARIABLES
    td_all,      \* rows of the "Time Data" sheet (the rows handed to the legacy export)
    has_hours,   \* whether the sheet has a total "Hours" column
    el,          \* the "Employee List" sheet
    disk,        \* export folder: path -> rows of the TimeEntries sheet
    out_paths,   \* paths returned by the last export_all_jobs_for_date
    files,       \* {filename: rows} returned by the last build_per_job_exports
    last,        \* the last operation and its arguments
    out_df,      \* frame returned by the last build_export_rows
    legacy_df,   \* frame returned by the last _map_hours_rows
    log,         \* rows of the "Exports Log" sheet
    td_day,      \* the day preview frame
    split_in,    \* arguments of the last hours_split_by_ot call
    split_out,   \* its result
    err,         \* the exception the last operation raised, "" when it returned
    ui,          \* the message the last form handler showed
    store,       \* rows of the time_entries table
    sb,          \* the last call of supabase_helpers: what it sent and returned
    wr           \* the workbook being written by the export run in progress

vars == <<td_all, has_hours, el, disk, out_paths, files, last, out_df, legacy_df,
          log, td_day, split_in, split_out, err, ui, store, sb, wr>>

----------------------------------------------------------------------------
(* Bounds of the model *)

MaxRows == 2        \* rows in the Time Data sheet
MaxAreaLen == 4     \* characters of a job-area cell
MaxTotal == 10      \* largest total-hours value
MaxEmp == 2         \* rows of the Employee List
MaxLog == 2         \* rows of the Exports Log

----------------------------------------------------------------------------
(* Characters and strings *)

DigitChars == <<"0","1","2","3","4","5","6","7","8","9">>
LowerChars == <<"a","b","c","d","e","f","g","h","i","j","k","l","m",
                "n","o","p","q","r","s","t","u","v","w","x","y","z">>
UpperChars == <<"A","B","C","D","E","F","G","H","I","J","K","L","M",
                "N","O","P","Q","R","S","T","U","V","W","X","Y","Z">>

Range(s) == {s[i] : i \in 1..Len(s)}

\* The float NaN of an empty cell, the number 0 of a numeric cell, and Python's
\* str() of a cell
NaN == <<"<NaN>">>
IntZero == <<"<0>">>
isna(v) == v = NaN
str(v) == IF v = NaN THEN <<"n","a","n">> ELSE IF v = IntZero THEN <<"0">> ELSE v

IsSpace(c) == c = " "

RECURSIVE lstrip(_)
lstrip(s) == IF s # <<>> /\ IsSpace(Head(s)) THEN lstrip(Tail(s)) ELSE s

RECURSIVE rstrip(_)
rstrip(s) ==
    IF s # <<>> /\ IsSpace(s[Len(s)]) THEN rstrip(SubSeq(s, 1, Len(s) - 1)) ELSE s

strip(s) == rstrip(lstrip(s))

UpperCh(c) ==
    IF c \in Range(LowerChars)
    THEN UpperChars[CHOOSE i \in 1..Len(LowerChars) : LowerChars[i] = c]
    ELSE c

upper(s) == [i \in 1..Len(s) |-> UpperCh(s[i])]

isdigit(s) == s # <<>> /\ \A i \in 1..Len(s) : s[i] \in Range(DigitChars)

DigitVal(c) == (CHOOSE i \in 1..10 : DigitChars[i] = c) - 1

\* int(s) of a string of digits
RECURSIVE int(_)
int(s) == IF s = <<>> THEN 0 ELSE 10 * int(SubSeq(s, 1, Len(s) - 1)) + DigitVal(s[Len(s)])

\* str(n) of a natural number
RECURSIVE IntToStr(_)
IntToStr(n) ==
    IF n < 10 THEN <<DigitChars[n + 1]>>
    ELSE IntToStr(n \div 10) \o <<DigitChars[(n % 10) + 1]>>

\* f"{n:0{w}d}"
RECURSIVE ZeroFill(_, _)
ZeroFill(s, w) == IF Len(s) >= w THEN s ELSE ZeroFill(<<"0">> \o s, w)

Format0d(n, w) == ZeroFill(IntToStr(n), w)

\* sub in s
Contains(s, sub) ==
    \E i \in 0..(Len(s) - Len(sub)) : SubSeq(s, i + 1, i + Len(sub)) = sub

----------------------------------------------------------------------------
(* Job-area canonicalisation *)

PadWidth == 3

\* Mutant of _pad_job_area: the digits zero-filled as text, s.zfill(3)
_pad_job_area_zfill(v) ==
    LET s == strip(str(v))
    IN  IF isdigit(s) THEN ZeroFill(s, 3) ELSE s

_pad_job_area(v) ==
    LET s == strip(str(v))
    IN  IF isdigit(s) THEN Format0d(int(s), PadWidth) ELSE s

\* str(x or ""): the number 0 is falsy and reads as ""
_pad3(x) ==
    LET s == strip(IF x = IntZero THEN <<>> ELSE str(x))
    IN  IF isdigit(s) THEN Format0d(int(s), PadWidth) ELSE s

_clean_blank(val, up) ==
    IF isna(val) THEN <<>>
    ELSE LET s == strip(str(val))
         IN  IF upper(s) = <<"N","A","N">> THEN <<>>
             ELSE IF up THEN upper(s) ELSE s

----------------------------------------------------------------------------
(* Dates: a calendar date is [y, m, d] *)

IsLeap(y) == (y % 4 = 0 /\ y % 100 # 0) \/ y % 400 = 0

DaysInMonth(y, m) ==
    CASE m \in {4, 6, 9, 11} -> 30
      [] m = 2 -> IF IsLeap(y) THEN 29 ELSE 28
      [] OTHER -> 31

RECURSIVE DaysBeforeMonth(_, _)
DaysBeforeMonth(y, m) ==
    IF m = 1 THEN 0 ELSE DaysBeforeMonth(y, m - 1) + DaysInMonth(y, m - 1)

DaysBeforeYear(y) ==
    (y - 1) * 365 + ((y - 1) \div 4) - ((y - 1) \div 100) + ((y - 1) \div 400)

\* date.toordinal() and date.weekday(): Monday is 0, Sunday is 6
toordinal(date) == DaysBeforeYear(date.y) + DaysBeforeMonth(date.y, date.m) + date.d
weekday(date) == (toordinal(date) + 6) % 7

\* strftime("%Y-%m-%d") and strftime("%m-%d-%Y")
strftime_Ymd(date) ==
    Format0d(date.y, 4) \o <<"-">> \o Format0d(date.m, 2) \o <<"-">> \o Format0d(date.d, 2)
strftime_mdY(date) ==
    Format0d(date.m, 2) \o <<"-">> \o Format0d(date.d, 2) \o <<"-">> \o Format0d(date.y, 4)

MonthNames == <<"January","February","March","April","May","June","July",
                "August","September","October","November","December">>
strftime_B(date) == MonthNames[date.m]

\* Whether pd.to_datetime accepts the text: here, the ISO form YYYY-MM-DD
IsIsoDate(s) ==
    /\ Len(s) = 10
    /\ s[5] = "-" /\ s[8] = "-"
    /\ isdigit(SubSeq(s, 1, 4)) /\ isdigit(SubSeq(s, 6, 7)) /\ isdigit(SubSeq(s, 9, 10))
    /\ int(SubSeq(s, 6, 7)) \in 1..12
    /\ int(SubSeq(s, 9, 10)) \in 1..DaysInMonth(int(SubSeq(s, 1, 4)), int(SubSeq(s, 6, 7)))
    /\ int(SubSeq(s, 1, 4)) >= 1

\* pd.to_datetime(s).date() of an ISO date text
to_datetime(s) ==
    [y |-> int(SubSeq(s, 1, 4)), m |-> int(SubSeq(s, 6, 7)), d |-> int(SubSeq(s, 9, 10))]

----------------------------------------------------------------------------
(* Floats: hours cells *)

Num(n) == [k |-> "num", v |-> n]
NaNf == [k |-> "nan", v |-> 0]
\* A cell that is None or "" (falsy), and a cell holding a text that is no number
NoneCell == [k |-> "none", v |-> 0]
BadText == [k |-> "str", v |-> 0]

\* float(x or 0.0) raises ValueError for a text that is no number
float_raises(x) == x.k = "str"

\* float(x or 0.0): a number stays, NaN is truthy and stays NaN, a falsy cell
\* gives 0.0
float_or0(x) ==
    CASE x.k = "num" -> Num(x.v)
      [] x.k = "nan" -> NaNf
      [] x.k = "none" -> Num(0)
\* x > 0 (False for NaN)
gt0(x) == x.k = "num" /\ x.v > 0
\* x.fillna(0) == 0
fillna0_is0(x) == x.k = "nan" \/ x.v = 0

RegularCap == 8
WeekendFrom == 5

\* Mutant of is_weekend: Sunday only
is_weekend_sunday(wd) == wd >= 6

\* weekday >= 5
is_weekend(wd) == wd >= WeekendFrom

\* The texts pd.to_datetime turns into NaT without raising; NaT.date() is NaT and
\* NaT.weekday() is nan, which is not >= 5
NaTTexts ==
    {<<>>, <<"n","a","n">>, <<"N","a","N">>, <<"N","A","N">>, <<"N","a","T">>,
     <<"n","a","t">>, <<"N","A","T">>}

\* hours_split_by_ot: date_str is a text, today the current day (used when
\* pd.to_datetime raises), hours_val a float
hours_split_by_ot(date_str, hours_val, today) ==
    LET nat == date_str \in NaTTexts
        d == IF IsIsoDate(date_str) THEN to_datetime(date_str) ELSE today
        wd == weekday(d)
        hours == float_or0(hours_val)
    IN  IF ~nat /\ is_weekend(wd) THEN <<Num(0), hours>>
        ELSE IF hours.k = "num" /\ hours.v <= RegularCap THEN <<hours, Num(0)>>
        ELSE IF hours.k = "num" THEN <<Num(RegularCap), Num(hours.v - RegularCap)>>
        ELSE <<Num(RegularCap), NaNf>>

----------------------------------------------------------------------------
(* Sequences *)

\* The concatenation of the sequences of ss, by halves
RECURSIVE Flatten(_)
Flatten(ss) ==
    IF ss = <<>> THEN <<>>
    ELSE IF Len(ss) = 1 THEN ss[1]
    ELSE Flatten(SubSeq(ss, 1, Len(ss) \div 2))
           \o Flatten(SubSeq(ss, Len(ss) \div 2 + 1, Len(ss)))

\* Series.unique(): the distinct values in order of first appearance
unique(s) ==
    LET first == SelectSeq([i \in 1..Len(s) |-> i],
                           LAMBDA i : \A j \in 1..(i - 1) : s[j] # s[i])
    IN  [k \in 1..Len(first) |-> s[first[k]]]

\* Code-point order of the characters of the model, and Python's string order
AsciiOrder == <<" ", "-", ".">> \o DigitChars \o UpperChars \o LowerChars
Ord(c) == CHOOSE i \in 1..Len(AsciiOrder) : AsciiOrder[i] = c

RECURSIVE StrLess(_, _)
StrLess(a, b) ==
    IF a = <<>> THEN b # <<>>
    ELSE IF b = <<>> THEN FALSE
    ELSE IF Head(a) = Head(b) THEN StrLess(Tail(a), Tail(b))
    ELSE Ord(Head(a)) < Ord(Head(b))

sorted(s) == SortSeq(s, StrLess)

\* Mutant of dict_get: the map is not read
dict_get_default(d, key, default) == default

dict_get(d, key, default) == IF key \in DOMAIN d THEN d[key] ELSE default

----------------------------------------------------------------------------
(* The export transform of timesheet_app.py *)

\* td.merge(el[...], how="left", left_on="Name", right_on="Employee Name"): one
\* merged row per matching Employee List row, in its order; one row with a NaN
\* Time Record Type when none matches.  Without an "Employee Name" column the
\* rows get an empty Time Record Type.
MergeRow(r, trt) == [row |-> r, TimeRecordType |-> trt]

MatchingEmployees(r, employee_list) ==
    SelectSeq(employee_list.rows, LAMBDA e : e.EmployeeName = r.Name)

MergeOne(r, employee_list) ==
    LET ms == MatchingEmployees(r, employee_list)
    IN  IF ms = <<>> THEN <<MergeRow(r, NaN)>>
        ELSE [i \in 1..Len(ms) |-> MergeRow(r, ms[i].TimeRecordType)]

merge(td, employee_list) ==
    IF employee_list.has_name_col
    THEN Flatten([i \in 1..Len(td) |-> MergeOne(td[i], employee_list)])
    ELSE [i \in 1..Len(td) |-> MergeRow(td[i], <<>>)]

DefaultREG == "211"
DefaultOT == "212"
DefaultSUBSISTENCE == "261"

\* Mutant of reg_active: ">=" for ">"
reg_active_ge(reg_h) == reg_h.k = "num" /\ reg_h.v >= 0

reg_active(reg_h) == gt0(reg_h)
ot_active(ot_h) == gt0(ot_h)
subsistence_active(pv_clean) ==
    \/ Contains(upper(pv_clean), <<"S","U","B","S","I","S","T">>)
    \/ pv_clean = <<"2","6","1">>
    \/ Contains(pv_clean, <<"2","6","1">>)

\* Mutant of app_comments: the record's comments carried to the line
app_comments_carried(r) == r.Comments

\* "Comments": "" in the base of a line: the record's comments are not exported
app_comments(r) == <<>>

\* The lines of one merged row: REG, then OT, then SUBSISTENCE
ExportRowLines(m, paycode_map) ==
    LET r == m.row
        reg_h == float_or0(r.RT)
        ot_h == float_or0(r.OT)
        ns_clean == _clean_blank(r.NightShift, TRUE)
        pv_clean == _clean_blank(r.Premium, FALSE)
        base == [Date |-> strftime_Ymd(to_datetime(r.Date)),
                 TimeRecordType |-> m.TimeRecordType,
                 PersonNumber |-> r.EmployeeNumber,
                 EmployeeName |-> r.Name,
                 OverrideTradeClass |-> r.TradeClass,
                 PostToPayroll |-> "Y",
                 CostCode |-> r.ClassType,
                 JobArea |-> _pad_job_area(r.JobArea),
                 ScopeChange |-> <<>>,
                 PayCode |-> "",
                 Hours |-> Num(0),
                 NightShift |-> ns_clean,
                 Premium |-> pv_clean,
                 Comments |-> app_comments(r)]
        reg_code == dict_get(paycode_map, "REG", DefaultREG)
        ot_code == dict_get(paycode_map, "OT", DefaultOT)
        subs_code == dict_get(paycode_map, "SUBSISTENCE", DefaultSUBSISTENCE)
    IN  (IF reg_active(reg_h)
         THEN <<[base EXCEPT !.PayCode = reg_code, !.Hours = reg_h]>> ELSE <<>>)
        \o
        (IF ot_active(ot_h)
         THEN <<[base EXCEPT !.PayCode = ot_code, !.Hours = ot_h]>> ELSE <<>>)
        \o
        (IF subsistence_active(pv_clean)
         THEN <<[base EXCEPT !.PayCode = subs_code, !.Hours = Num(1)]>> ELSE <<>>)

\* Whether the loop of build_export_rows raises: pd.to_datetime(...).strftime of a
\* Date that is no date, or float() of an hours cell that is no number
build_export_rows_raises(td_subset) ==
    \E i \in 1..Len(td_subset) :
        \/ ~IsIsoDate(str(td_subset[i].Date))
        \/ float_raises(td_subset[i].RT)
        \/ float_raises(td_subset[i].OT)

\* The frame build_export_rows returns when it does not raise
build_export_rows(td_subset, employee_list, paycode_map) ==
    LET merged == merge(td_subset, employee_list)
    IN  Flatten([i \in 1..Len(merged) |-> ExportRowLines(merged[i], paycode_map)])

\* The cells write_formatted writes for one line: a NaN cell is written as ""
notna_or_blank(val) == IF isna(val) THEN <<>> ELSE val

WrittenLine(l) ==
    [l EXCEPT !.TimeRecordType = notna_or_blank(l.TimeRecordType),
              !.PersonNumber = notna_or_blank(l.PersonNumber),
              !.EmployeeName = notna_or_blank(l.EmployeeName),
              !.OverrideTradeClass = notna_or_blank(l.OverrideTradeClass),
              !.CostCode = notna_or_blank(l.CostCode)]

\* Mutant of write_formatted: the rows are added to those of an existing workbook
write_formatted_append(d, out_df_, out_path) ==
    [p \in DOMAIN d \cup {out_path} |->
        IF p = out_path
        THEN (IF p \in DOMAIN d THEN d[p] ELSE <<>>)
             \o [i \in 1..Len(out_df_) |-> WrittenLine(out_df_[i])]
        ELSE d[p]]

\* write_formatted: the workbook at out_path is created anew with the frame's rows
write_formatted(d, out_df_, out_path) ==
    [p \in DOMAIN d \cup {out_path} |->
        IF p = out_path THEN [i \in 1..Len(out_df_) |-> WrittenLine(out_df_[i])]
        ELSE d[p]]

----------------------------------------------------------------------------
(* The legacy transform of exports_legacy.py *)

legacy_reg_active(reg_h) == gt0(reg_h)
legacy_ot_active(ot_h) == gt0(ot_h)

LegacyRowLines(r, paycode_map) ==
    LET reg_h == float_or0(r.RT)
        ot_h == float_or0(r.OT)
        base == [Date |-> strftime_Ymd(to_datetime(r.Date)),
                 TimeRecordType |-> <<>>,
                 PersonNumber |-> r.EmployeeNumber,
                 EmployeeName |-> r.Name,
                 OverrideTradeClass |-> r.TradeClass,
                 PostToPayroll |-> "Y",
                 CostCode |-> r.ClassType,
                 JobArea |-> _pad3(r.JobArea),
                 ScopeChange |-> <<>>,
                 PayCode |-> "",
                 Hours |-> Num(0),
                 NightShift |-> <<>>,
                 Premium |-> r.Premium,
                 Comments |-> r.Comments]
    IN  (IF legacy_reg_active(reg_h)
         THEN <<[base EXCEPT !.PayCode = dict_get(paycode_map, "REG", DefaultREG),
                             !.Hours = reg_h]>> ELSE <<>>)
        \o
        (IF legacy_ot_active(ot_h)
         THEN <<[base EXCEPT !.PayCode = dict_get(paycode_map, "OT", DefaultOT),
                             !.Hours = ot_h]>> ELSE <<>>)

_map_hours_rows_raises(df_job) ==
    \E i \in 1..Len(df_job) :
        \/ float_raises(df_job[i].RT)
        \/ float_raises(df_job[i].OT)
        \/ ~IsIsoDate(str(df_job[i].Date))

\* The frame _map_hours_rows returns when it does not raise
_map_hours_rows(df_job, paycode_map) ==
    Flatten([i \in 1..Len(df_job) |-> LegacyRowLines(df_job[i], paycode_map)])

----------------------------------------------------------------------------
(* Per-job export files *)

ImportSuffix == <<" - Daily Time Import.xlsx">>

\* Mutant of import_file_name: the date as %d-%m-%Y
import_file_name_dmY(date, job) ==
    Format0d(date.d, 2) \o <<"-">> \o Format0d(date.m, 2) \o <<"-">> \o Format0d(date.y, 4)
        \o <<" - ">> \o job \o ImportSuffix

\* f"{date:%m-%d-%Y} - {job} - Daily Time Import.xlsx"
import_file_name(date, job) == strftime_mdY(date) \o <<" - ">> \o job \o ImportSuffix

\* subset = td[td["Date"].astype(str).str[:10] == date_str]
DateSubset(td, date_str) ==
    SelectSeq(td, LAMBDA r : SubSeq(str(r.Date), 1, 10) = date_str)

\* sorted(subset["Job Number"].astype(str).str.strip().unique().tolist())
job_nums_of(subset) ==
    sorted(unique([i \in 1..Len(subset) |-> strip(str(subset[i].JobNumber))]))

\* Mutant of JobSubset: the job-number cell compared without strip()
JobSubset_nostrip(subset, job) == SelectSeq(subset, LAMBDA r : str(r.JobNumber) = job)

JobSubset(subset, job) ==
    SelectSeq(subset, LAMBDA r : strip(str(r.JobNumber)) = job)

\* Mutant of log_status: the status does not look at the count
log_status_created(n) == "Created"

log_status(n) == IF n > 0 THEN "Created" ELSE "Empty"

\* Whether write_formatted raises: the workbook cannot be created at out_path
write_formatted_raises(out_path, unwritable) == out_path \in unwritable

\* The loop of export_all_jobs_for_date over job_nums; acc is [disk, out_paths, log,
\* err]; an exception of build_export_rows or write_formatted leaves the loop
RECURSIVE ExportJobs(_, _, _, _, _, _, _)
ExportJobs(jobs, subset, employee_list, date_str, paycode_map, unwritable, acc) ==
    IF jobs = <<>> THEN acc
    ELSE LET job == Head(jobs)
             dt_obj == to_datetime(date_str)
             sub == JobSubset(subset, job)
             df == build_export_rows(sub, employee_list, paycode_map)
             file_name == import_file_name(dt_obj, job)
             out_path == <<strftime_B(dt_obj), file_name>>
             row == [Date |-> date_str, JobNumber |-> job, EntriesCount |-> Len(df),
                     FileName |-> file_name, Status |-> log_status(Len(df))]
         IN  IF build_export_rows_raises(sub) THEN [acc EXCEPT !.err = "ValueError"]
             ELSE IF write_formatted_raises(out_path, unwritable)
             THEN [acc EXCEPT !.err = "FileCreateError"]
             ELSE ExportJobs(Tail(jobs), subset, employee_list, date_str, paycode_map,
                             unwritable,
                             [disk |-> write_formatted(acc.disk, df, out_path),
                              out_paths |-> Append(acc.out_paths, out_path),
                              log |-> Append(acc.log, row),
                              err |-> ""])

\* export_all_jobs_for_date: the disk and log it leaves and the paths it returns.
\* When the loop raises, the documents written so far stay on the disk, wb.save
\* is not reached, so the log is as it was, and nothing is returned.
export_all_jobs_for_date(td, employee_list, d, lg, date_str, paycode_map, unwritable) ==
    LET subset == DateSubset(td, date_str)
        r == ExportJobs(job_nums_of(subset), subset, employee_list, date_str, paycode_map,
                        unwritable, [disk |-> d, out_paths |-> <<>>, log |-> lg, err |-> ""])
    IN  IF subset = <<>> THEN [disk |-> d, out_paths |-> <<>>, log |-> lg, err |-> ""]
        ELSE IF r.err # "" THEN [disk |-> r.disk, out_paths |-> <<>>, log |-> lg, err |-> r.err]
        ELSE r

\* str.title() of a text: a letter after a non-letter in upper case, others in lower
LowerCh(c) ==
    IF c \in Range(UpperChars)
    THEN LowerChars[CHOOSE i \in 1..Len(UpperChars) : UpperChars[i] = c]
    ELSE c

IsLetter(c) == c \in Range(LowerChars) \cup Range(UpperChars)

title(s) ==
    [i \in 1..Len(s) |->
        IF i = 1 \/ ~IsLetter(s[i - 1]) THEN UpperCh(s[i]) ELSE LowerCh(s[i])]

BandIndirect == <<"I","n","d","i","r","e","c","t">>
BandDirect == <<"D","i","r","e","c","t">>

\* The band of one Employee List row: Direct unless the cell reads Indirect
band_of(e) ==
    IF "Band" \in DOMAIN e /\ title(strip(str(e.Band))) = BandIndirect THEN BandIndirect
    ELSE BandDirect

\* _employee_band: the band of each stripped name, the last row of a name winning
_employee_band(employee_list) ==
    LET rows == employee_list.rows
        key(e) == IF employee_list.has_name_col THEN strip(str(e.EmployeeName)) ELSE <<>>
        names == {key(rows[i]) : i \in 1..Len(rows)}
        last_row(n) == CHOOSE i \in 1..Len(rows) :
                           key(rows[i]) = n /\ \A j \in (i + 1)..Len(rows) : key(rows[j]) # n
    IN  [n \in names |-> band_of(rows[last_row(n)])]

\* band_map.get(emp, "Direct")
band_get(band_map, emp) == IF emp \in DOMAIN band_map THEN band_map[emp] ELSE BandDirect

\* pd.to_numeric(x, errors="coerce") followed by fillna(0.0)
to_numeric_fillna0(x) == IF x.k = "num" THEN x ELSE Num(0)

\* The entry of one row of the day in entries_by_emp
daily_entry(r) ==
    [job_num |-> strip(str(r.JobNumber)),
     area_code |-> _pad_job_area(r.JobArea),
     cost_code |-> strip(str(r.ClassType)),
     rt |-> to_numeric_fillna0(r.RT),
     ot |-> to_numeric_fillna0(r.OT),
     premium |-> _clean_blank(r.Premium, FALSE)]

daily_emp(r) == strip(str(r.Name))

\* entries_by_emp[emp]: the entries of the rows of the day that carry the name
entries_of(day, emp) ==
    LET rows == SelectSeq(day, LAMBDA r : daily_emp(r) = emp)
    IN  [i \in 1..Len(rows) |-> daily_entry(rows[i])]

\* sorted(entries_by_emp.keys(), key=lambda s: s.upper()): the names in order of
\* their upper case, names of equal upper case in order of first appearance
all_emps_of(day) ==
    LET keys == unique(SelectSeq([i \in 1..Len(day) |-> daily_emp(day[i])],
                                 LAMBDA n : n # <<>>))
        idx == SortSeq([i \in 1..Len(keys) |-> i],
                       LAMBDA i, j : \/ StrLess(upper(keys[i]), upper(keys[j]))
                                     \/ upper(keys[i]) = upper(keys[j]) /\ i < j)
    IN  [n \in 1..Len(idx) |-> keys[idx[n]]]

\* math.ceil(n / 2)
ceil_half(n) == (n + 1) \div 2

\* The rows an employee's entries take, two entries to a row
chunks_of(emp, jobs) ==
    [k \in 1..ceil_half(Len(jobs)) |->
        [emp |-> emp,
         entries |-> SubSeq(jobs, 2 * k - 1,
                            IF 2 * k <= Len(jobs) THEN 2 * k ELSE Len(jobs))]]

\* The chunks of the employees of a band, in the order allocate meets them
band_chunks(day, band_map, band) ==
    LET emps == SelectSeq(all_emps_of(day), LAMBDA e : band_get(band_map, e) = band)
    IN  Flatten([i \in 1..Len(emps) |-> chunks_of(emps[i], entries_of(day, emps[i]))])

\* calc_needed(band)
calc_needed(day, band_map, band) == Len(band_chunks(day, band_map, band))

INDIRECT_START == 8
INDIRECT_END == 30
DIRECT_START == 32
DIRECT_END == 261

\* The bands after the two "if needed > avail" blocks
extended_bands(needed_ind, needed_dir) ==
    LET avail_ind == INDIRECT_END - INDIRECT_START + 1
        extra_ind == IF needed_ind > avail_ind THEN needed_ind - avail_ind ELSE 0
        avail_dir == DIRECT_END - DIRECT_START + 1
        extra_dir == IF needed_dir > avail_dir THEN needed_dir - avail_dir ELSE 0
    IN  [ind_start |-> INDIRECT_START, ind_end |-> INDIRECT_END + extra_ind,
         dir_start |-> DIRECT_START + extra_ind,
         dir_end |-> DIRECT_END + extra_ind + extra_dir]

\* Whether allocate raises "Out of rows": the iterator over rows_range ends
\* before the chunks do
allocate_raises(first, last_row, chunks) == Len(chunks) > last_row - first + 1

\* allocate(rows_range, band): the rows of rows_range in order, one to a chunk
allocate(first, chunks) ==
    [i \in 1..Len(chunks) |->
        [row |-> first + i - 1, emp |-> chunks[i].emp, entries |-> chunks[i].entries]]

\* " – Daily Time.xlsx"; the dash of the source is U+2013, written here as "--"
DailySuffix == <<" -- Daily Time.xlsx">>

daily_out_path(date_str) ==
    <<strftime_B(to_datetime(date_str)), strftime_mdY(to_datetime(date_str)) \o DailySuffix>>

\* The body of export_daily_time_report after its first statement: the report
\* saved, the "ALL" row of the Exports Log, the path returned; None when the
\* day has no rows or allocate raises
daily_time_body(td, employee_list, d, lg, date_str) ==
    LET day == DateSubset(td, date_str)
        band_map == _employee_band(employee_list)
        ind == band_chunks(day, band_map, BandIndirect)
        dir == band_chunks(day, band_map, BandDirect)
        bands == extended_bands(Len(ind), Len(dir))
        out_path == daily_out_path(date_str)
        report == [kind |-> "daily", date |-> date_str, bands |-> bands,
                   placed |-> allocate(bands.ind_start, ind)
                              \o allocate(bands.dir_start, dir)]
        row == [Date |-> date_str, JobNumber |-> <<"A","L","L">>, EntriesCount |-> Len(day),
                FileName |-> out_path[2], Status |-> "Created"]
    IN  IF day = <<>>
           \/ allocate_raises(bands.ind_start, bands.ind_end, ind)
           \/ allocate_raises(bands.dir_start, bands.dir_end, dir)
        THEN [disk |-> d, log |-> lg, path |-> <<>>, err |-> ""]
        ELSE [disk |-> [p \in DOMAIN d \cup {out_path} |->
                           IF p = out_path THEN report ELSE d[p]],
              log |-> Append(lg, row), path |-> out_path, err |-> ""]

\* The "import os" in the body of export_daily_time_report makes os a local
\* name of the function, unbound when its first statement reads it
os_is_unbound == TRUE

\* export_daily_time_report: os.path.exists(template_path), its first statement,
\* raises UnboundLocalError before anything is read or written
export_daily_time_report(td, employee_list, d, lg, date_str) ==
    IF os_is_unbound
    THEN [disk |-> d, log |-> lg, path |-> <<>>, err |-> "UnboundLocalError"]
    ELSE daily_time_body(td, employee_list, d, lg, date_str)

MsgFailed == "Export failed"
MsgNoRows == "No matching rows for that date. No files created."
MsgCreated == "Created"

\* The body of the export form once export_all_jobs_for_date has returned or
\* raised (a): both exports are inside one try, any exception is reported as
\* "Export failed"
export_form_after(a, td, employee_list, date_str) ==
    LET b == export_daily_time_report(td, employee_list, a.disk, a.log, date_str)
        n_daily == IF b.path # <<>> THEN 1 ELSE 0
    IN  IF a.err # ""
        THEN [disk |-> a.disk, out_paths |-> <<>>, log |-> a.log, err |-> a.err,
              ui |-> MsgFailed]
        ELSE IF b.err # ""
        THEN [disk |-> b.disk, out_paths |-> a.out_paths, log |-> b.log, err |-> b.err,
              ui |-> MsgFailed]
        ELSE [disk |-> b.disk, out_paths |-> a.out_paths, log |-> b.log, err |-> "",
              ui |-> IF Len(a.out_paths) + n_daily = 0 THEN MsgNoRows ELSE MsgCreated]

\* The export form for the sheet td
export_form(td, employee_list, d, lg, date_str, paycode_map, unwritable) ==
    CHOOSE res \in {export_form_after(a, td, employee_list, date_str) :
                        a \in {export_all_jobs_for_date(td, employee_list, d, lg, date_str,
                                                         paycode_map, unwritable)}} : TRUE

\* fetch_time_entries_for_date(date_str): the rows of the date, oldest first
fetch_time_entries_for_date(td, date_str) ==
    SelectSeq(td, LAMBDA r : str(r.Date) = date_str)

legacy_job_nums_of(df_all) == sorted(unique([i \in 1..Len(df_all) |-> str(df_all[i].JobNumber)]))

LegacyJobSubset(df_all, job) == SelectSeq(df_all, LAMBDA r : str(r.JobNumber) = job)

\* out_df.to_excel(...): a None or NaN cell is written as an empty cell
LegacySheet(df) ==
    [i \in 1..Len(df) |->
        [df[i] EXCEPT !.PersonNumber = notna_or_blank(@),
                      !.EmployeeName = notna_or_blank(@),
                      !.OverrideTradeClass = notna_or_blank(@),
                      !.CostCode = notna_or_blank(@),
                      !.Premium = notna_or_blank(@),
                      !.Comments = notna_or_blank(@)]]

\* Mutant of legacy_skip: an empty frame is written like any other
legacy_skip_never(df) == FALSE

\* if out_df.empty: continue
legacy_skip(df) == df = <<>>

\* The loop of build_per_job_exports; fs is the dict built so far
RECURSIVE LegacyJobs(_, _, _, _, _)
LegacyJobs(jobs, df_all, export_date, paycode_map, fs) ==
    IF jobs = <<>> THEN fs
    ELSE LET job == Head(jobs)
             df == _map_hours_rows(LegacyJobSubset(df_all, job), paycode_map)
             fname == import_file_name(export_date, job)
         IN  LegacyJobs(Tail(jobs), df_all, export_date, paycode_map,
                        IF legacy_skip(df) THEN fs
                        ELSE [f \in DOMAIN fs \cup {fname} |->
                                 IF f = fname THEN LegacySheet(df) ELSE fs[f]])

NoFiles == [f \in {} |-> <<>>]

\* Whether build_per_job_exports raises: _map_hours_rows raises for one of its jobs
build_per_job_exports_raises(df_all) == _map_hours_rows_raises(df_all)

\* The dict build_per_job_exports returns when it does not raise
build_per_job_exports(df_all, export_date, paycode_map) ==
    IF df_all = <<>> THEN NoFiles
    ELSE LegacyJobs(legacy_job_nums_of(df_all), df_all, export_date, paycode_map, NoFiles)

----------------------------------------------------------------------------
(* Inputs of the model *)

BoundedSeq(S, n) == UNION {[1..k -> S] : k \in 0..n}

\* paycode_map of load_lookups, and a caller's map that overrides OT only
AppPaycodeMap == [REG |-> "211", OT |-> "212", SUBSISTENCE |-> "261"]
PaycodeMaps == {AppPaycodeMap, [OT |-> "299"]}

Date0919 == [y |-> 2025, m |-> 9, d |-> 19]
Date0920 == [y |-> 2025, m |-> 9, d |-> 20]
ExportDates == {Date0919, Date0920}

Job100 == <<"1","0","0">>
Job100sp == <<"1","0","0"," ">>
Job4500123 == <<"4","5","0","0","1","2","3">>
JobNumbers == {Job100, Job100sp, Job4500123}

NameA == <<"A">>

Row(job, area, date_str, name, rt, ot, prem, hours) ==
    [JobNumber |-> job, JobArea |-> area, Date |-> date_str, Name |-> name,
     ClassType |-> <<"C","1">>, TradeClass |-> <<"T">>, EmployeeNumber |-> <<"9">>,
     RT |-> rt, OT |-> ot, NightShift |-> <<>>, Premium |-> prem, Comments |-> <<>>,
     Hours |-> hours]

Employee(name, trt) == [EmployeeName |-> name, TimeRecordType |-> trt]

\* Employee List sheets: without an "Employee Name" column, or with up to MaxEmp
\* rows (names need not be unique in the sheet)
EmployeeLists ==
    {[has_name_col |-> FALSE, rows |-> <<>>]}
    \cup {[has_name_col |-> TRUE, rows |-> [i \in 1..k |-> Employee(NameA, <<"R">>)]] :
            k \in 0..MaxEmp}

NoOp == [op |-> "none", date |-> Date0919, paycode_map |-> AppPaycodeMap, unwritable |-> {}, ids |-> {}]

\* No call of supabase_helpers made yet, and no export run in progress
NoCall ==
    [op |-> "none", rows |-> <<>>, created_by |-> "", ids |-> {}, contacted |-> FALSE,
     sent |-> <<>>, ret |-> 0]

\* The time_entries table before any insert: no rows, and the id the next row gets
NoStore == [rows |-> <<>>, next |-> 1]
NoRun == [pc |-> "idle"]

\* Rows of the grouping model: two dates, three job-number cells, with or without hours
GroupRow(j, d, h) == Row(j, <<"7">>, strftime_Ymd(d), NameA, Num(h), Num(0), <<>>, NaNf)

GroupRows ==
    {GroupRow(Job100, Date0919, RegularCap), GroupRow(Job100sp, Date0919, RegularCap),
     GroupRow(Job4500123, Date0919, RegularCap), GroupRow(Job4500123, Date0919, 0),
     GroupRow(Job100, Date0919, 0), GroupRow(Job100, Date0920, RegularCap)}

InitCommon ==
    /\ has_hours = FALSE
    /\ disk = NoFiles
    /\ out_paths = <<>>
    /\ files = NoFiles
    /\ last = NoOp
    /\ out_df = <<>>
    /\ legacy_df = <<>>
    /\ log = <<>>
    /\ td_day = <<>>
    /\ split_in = <<>>
    /\ split_out = <<>>
    /\ err = ""
    /\ ui = "none"
    /\ store = NoStore
    /\ sb = NoCall
    /\ wr = NoRun

\* The rows that follow the first row of a sheet: the same job with a trailing
\* space, a job without hours, and a row of the next day
GroupContext ==
    {GroupRow(Job100sp, Date0919, RegularCap), GroupRow(Job4500123, Date0919, 0),
     GroupRow(Job100, Date0920, RegularCap)}

Init ==
    /\ td_all \in {<<>>} \cup {<<r>> \o ctx :
                                 r \in GroupRows, ctx \in BoundedSeq(GroupContext, MaxRows - 1)}
    /\ el \in EmployeeLists
    /\ InitCommon

----------------------------------------------------------------------------
(* Export actions *)

\* The "Export ALL Jobs for Date" form: the form's date rendered as %Y-%m-%d and
\* the paycode_map of load_lookups; unwritable are the paths at which no workbook
\* can be created
ExportAllJobsForDate(export_date, unwritable) ==
    \E r \in {export_form(td_all, el, disk, log, strftime_Ymd(export_date),
                           AppPaycodeMap, unwritable)} :
        /\ Len(r.log) <= MaxLog
        /\ disk' = r.disk
        /\ out_paths' = r.out_paths
        /\ log' = r.log
        /\ err' = r.err
        /\ ui' = r.ui
        /\ last' = [op |-> "export_all_jobs_for_date", date |-> export_date,
                    paycode_map |-> AppPaycodeMap, unwritable |-> unwritable, ids |-> {}]
        /\ UNCHANGED <<td_all, has_hours, el, files, out_df, legacy_df, td_day,
                       split_in, split_out, store, sb, wr>>

\* The legacy rebuild: the rows of the date are fetched and handed to
\* build_per_job_exports
BuildPerJobExports(export_date, paycode_map) ==
    LET df_all == fetch_time_entries_for_date(td_all, strftime_Ymd(export_date))
    IN  /\ IF build_per_job_exports_raises(df_all)
           THEN err' = "ValueError" /\ files' = NoFiles
           ELSE err' = "" /\ files' = build_per_job_exports(df_all, export_date, paycode_map)
        /\ last' = [op |-> "build_per_job_exports", date |-> export_date,
                    paycode_map |-> paycode_map, unwritable |-> {}, ids |-> {}]
        /\ UNCHANGED <<td_all, has_hours, el, disk, out_paths, out_df, legacy_df, log,
                       td_day, split_in, split_out, ui, store, sb, wr>>

Next ==
    \/ \E d \in ExportDates : ExportAllJobsForDate(d, {})
    \/ \E d \in ExportDates, pc \in PaycodeMaps : BuildPerJobExports(d, pc)

Spec == Init /\ [][Next]_vars

\* Sheets of one record whose optional cells are empty (NaN), blank, the text
\* "NAN" or a value
OptionalCells == {NaN, <<>>, <<"N","A","N">>, <<"T">>}

InitBlank ==
    /\ td_all \in {<<[GroupRow(Job100, Date0919, RegularCap) EXCEPT
                         !.TradeClass = tc, !.NightShift = ns, !.Premium = pv,
                         !.Comments = cm]>> :
                     tc \in OptionalCells, ns \in OptionalCells, pv \in OptionalCells,
                     cm \in OptionalCells}
    /\ el \in {[has_name_col |-> TRUE, rows |-> <<>>],
                [has_name_col |-> TRUE, rows |-> <<Employee(NameA, <<"R">>)>>]}
    /\ InitCommon

SpecBlank == InitBlank /\ [][Next]_vars

\* The export form when the workbook of one job of the day cannot be created
UnwritableSets(d) ==
    {{}} \cup {{<<strftime_B(d), import_file_name(d, job)>>} : job \in {Job100, Job4500123}}

NextForm ==
    \/ \E d \in ExportDates : \E u \in UnwritableSets(d) : ExportAllJobsForDate(d, u)
    \/ \E d \in ExportDates, pc \in PaycodeMaps : BuildPerJobExports(d, pc)

SpecForm == Init /\ [][NextForm]_vars

----------------------------------------------------------------------------
(* The transforms applied to a batch of rows *)

\* Premium cells: empty, blank, NaN, the text "Nan", "Subsist", "261", " x2612 ", "26"
PremiumCells ==
    {<<>>, <<" ">>, NaN, <<"N","a","n">>, <<"S","u","b","s","i","s","t">>,
     <<"2","6","1">>, <<" ","x","2","6","1","2"," ">>, <<"2","6">>}

HoursCells == {Num(0), Num(RegularCap), NaNf}

\* The first row of a batch ranges over the hours and premium cells; the rows
\* after it are context rows
BatchRows ==
    {Row(Job100, <<"7">>, strftime_Ymd(Date0919), NameA, rt, ot, prem, NaNf) :
        rt \in HoursCells, ot \in {Num(0), Num(2)}, prem \in PremiumCells}

ContextRows ==
    {Row(Job100, <<"7">>, strftime_Ymd(Date0919), NameA, Num(1), Num(0), <<"2","6","1">>, NaNf),
     Row(Job100, <<"7">>, strftime_Ymd(Date0919), NameA, Num(0), Num(0), <<>>, NaNf)}

\* Each row of a batch is a different employee number
Numbered(rows) == [i \in 1..Len(rows) |-> [rows[i] EXCEPT !.EmployeeNumber = IntToStr(i)]]

InitRows ==
    /\ td_all \in {Numbered(<<r>> \o ctx) :
                     r \in BatchRows, ctx \in BoundedSeq(ContextRows, MaxRows - 1)}
    /\ el \in EmployeeLists
    /\ InitCommon

RunBuildExportRows(paycode_map) ==
    /\ IF build_export_rows_raises(td_all)
       THEN err' = "ValueError" /\ out_df' = <<>>
       ELSE err' = "" /\ out_df' = build_export_rows(td_all, el, paycode_map)
    /\ last' = [op |-> "build_export_rows", date |-> Date0919, paycode_map |-> paycode_map,
                unwritable |-> {}, ids |-> {}]
    /\ UNCHANGED <<td_all, has_hours, el, disk, out_paths, files, legacy_df, log, td_day,
                   split_in, split_out, ui, store, sb, wr>>

RunMapHoursRows(paycode_map) ==
    /\ IF _map_hours_rows_raises(td_all)
       THEN err' = "ValueError" /\ legacy_df' = <<>>
       ELSE err' = "" /\ legacy_df' = _map_hours_rows(td_all, paycode_map)
    /\ last' = [op |-> "_map_hours_rows", date |-> Date0919, paycode_map |-> paycode_map,
                unwritable |-> {}, ids |-> {}]
    /\ UNCHANGED <<td_all, has_hours, el, disk, out_paths, files, out_df, log, td_day,
                   split_in, split_out, ui, store, sb, wr>>

NextRows ==
    \/ \E pc \in PaycodeMaps : RunBuildExportRows(pc)
    \/ \E pc \in PaycodeMaps : RunMapHoursRows(pc)

SpecRows == InitRows /\ [][NextRows]_vars

\* Records of two jobs of one day, each a different employee number: all three
\* kinds of line, overtime only, and regular hours of another job
OrderRows ==
    {Row(Job100, <<"7">>, strftime_Ymd(Date0919), NameA, Num(RegularCap), Num(2),
         <<"2","6","1">>, NaNf),
     Row(Job100, <<"7">>, strftime_Ymd(Date0919), NameA, Num(0), Num(2), <<>>, NaNf),
     Row(Job4500123, <<"7">>, strftime_Ymd(Date0919), NameA, Num(RegularCap), Num(0), <<>>,
         NaNf)}

InitOrder ==
    /\ td_all \in {Numbered(batch) : batch \in BoundedSeq(OrderRows, MaxRows)}
    /\ el \in EmployeeLists
    /\ InitCommon

SpecOrder == InitOrder /\ [][Next]_vars

\* Job-area cells of a sheet: texts, a cell holding the number 0, an empty cell
EquivAreas == {<<"7">>, <<" ","1","2">>, <<"A">>, IntZero, NaN}

\* Records given to both transforms
EquivRows ==
    {Row(Job100, a, strftime_Ymd(Date0919), NameA, rt, ot, prem, NaNf) :
        a \in EquivAreas, rt \in HoursCells, ot \in {Num(0), Num(2)},
        prem \in {<<>>, NaN, <<"2","6","1">>}}

InitEquiv ==
    /\ td_all \in {Numbered(<<r>> \o ctx) :
                     r \in EquivRows, ctx \in BoundedSeq(ContextRows, MaxRows - 1)}
    /\ el \in EmployeeLists
    /\ InitCommon

SpecEquiv == InitEquiv /\ [][NextRows]_vars

\* Pay-code maps of a caller: that of load_lookups, an empty one, and maps that
\* override one key or all three
OverrideMaps ==
    {AppPaycodeMap, [k \in {} |-> ""], [REG |-> "111"], [OT |-> "299"],
     [SUBSISTENCE |-> "999"], [REG |-> "111", OT |-> "299", SUBSISTENCE |-> "999"]}

NextCodes ==
    \/ \E pc \in OverrideMaps : RunBuildExportRows(pc)
    \/ \E pc \in OverrideMaps : RunMapHoursRows(pc)

SpecCodes == InitRows /\ [][NextCodes]_vars

\* Batches whose first row has an RT or OT cell that is a number, NaN, falsy or a
\* text that is no number
MalformedHoursCells == {Num(RegularCap), NaNf, NoneCell, BadText}

InitHours ==
    /\ td_all \in {Numbered(<<Row(Job100, <<"7">>, strftime_Ymd(Date0919), NameA, rt, ot,
                                  <<>>, NaNf)>> \o ctx) :
                     rt \in MalformedHoursCells, ot \in MalformedHoursCells,
                     ctx \in BoundedSeq(ContextRows, MaxRows - 1)}
    /\ el \in EmployeeLists
    /\ InitCommon

SpecHours == InitHours /\ [][NextRows]_vars

\* Batches whose first record ranges over the descriptive fields
NameB == <<"B">>
FixPump == <<"F","I","X"," ","P","U","M","P">>

FieldRows ==
    {[Row(Job100, area, strftime_Ymd(d), name, Num(rt), Num(2), prem, NaNf) EXCEPT
         !.TradeClass = tc, !.ClassType = cc, !.Comments = cm] :
        area \in {<<"7">>, <<"A","7">>}, d \in ExportDates, name \in {NameA, NameB},
        rt \in {0, RegularCap}, prem \in {<<>>, <<"2","6","1">>},
        tc \in {<<"T">>, <<"W">>}, cc \in {<<"C","1">>}, cm \in {<<>>, FixPump}}

InitFields ==
    /\ td_all \in {Numbered(<<r>> \o ctx) :
                     r \in FieldRows, ctx \in BoundedSeq(ContextRows, MaxRows - 1)}
    /\ el \in EmployeeLists
    /\ InitCommon

SpecFields == InitFields /\ [][NextRows]_vars

\* Job-area cells: every text of up to MaxAreaLen characters
AreaChars == {"0", "1", "2", "7", "A", " "}

InitPad ==
    /\ td_all \in {<<Row(Job100, a, strftime_Ymd(Date0919), NameA, Num(RegularCap), Num(0),
                        <<>>, NaNf)>> : a \in BoundedSeq(AreaChars, MaxAreaLen)}
    /\ el = [has_name_col |-> TRUE, rows |-> <<Employee(NameA, <<"R">>)>>]
    /\ InitCommon

SpecPad == InitPad /\ [][NextRows]_vars

----------------------------------------------------------------------------
(* hours_split_by_ot applied to a date text and a total *)

SplitDates ==
    {[y |-> 2025, m |-> 9, d |-> dd] : dd \in 13..23}
    \cup {[y |-> 2024, m |-> 2, d |-> 29], [y |-> 2024, m |-> 12, d |-> 31],
          [y |-> 2025, m |-> 1, d |-> 1], [y |-> 2025, m |-> 3, d |-> 1]}

\* A text pd.to_datetime raises on, and a text it reads as NaT
UnparsableDate == <<"T","B","D">>
NaTDate == <<"n","a","n">>

InitSplit ==
    /\ td_all = <<>>
    /\ el = [has_name_col |-> FALSE, rows |-> <<>>]
    /\ InitCommon

CallHoursSplit(date_str, hours_val, today) ==
    /\ split_in' = <<date_str, hours_val, today>>
    /\ split_out' = hours_split_by_ot(date_str, hours_val, today)
    /\ UNCHANGED <<td_all, has_hours, el, disk, out_paths, files, last, out_df,
                   legacy_df, log, td_day, err, ui, store, sb, wr>>

NextSplit ==
    \E date_str \in {strftime_Ymd(d) : d \in SplitDates} \cup {UnparsableDate, NaTDate},
       hours_val \in {Num(n) : n \in 0..MaxTotal} \cup {NaNf},
       today \in ExportDates :
        CallHoursSplit(date_str, hours_val, today)

SpecSplit == InitSplit /\ [][NextSplit]_vars

----------------------------------------------------------------------------
(* Day preview *)

\* Mutant of zero_mask: one zero of the pair is enough
zero_mask_either(r) == fillna0_is0(r.RT) \/ fillna0_is0(r.OT)

zero_mask(r) == fillna0_is0(r.RT) /\ fillna0_is0(r.OT)

\* One row of td_day: the job area padded and, when the sheet has an "Hours"
\* column, the split of the total written over a zero RT/OT pair
PreviewRow(r, with_hours, today) ==
    LET comp == hours_split_by_ot(str(r.Date), r.Hours, today)
        padded == [r EXCEPT !.JobArea = _pad_job_area(r.JobArea)]
    IN  IF with_hours /\ zero_mask(r)
        THEN [padded EXCEPT !.RT = comp[1], !.OT = comp[2]]
        ELSE padded

PreviewMask(r, date_val, job_filter, sel_job) ==
    /\ SubSeq(str(r.Date), 1, 10) = strftime_Ymd(date_val)
    /\ (job_filter /\ sel_job # <<>>) => strip(str(r.JobNumber)) = strip(sel_job)

\* td_day with its IDX column: the index of td_all (from 0) of each row shown
day_preview(td, with_hours, date_val, job_filter, sel_job, today) ==
    LET idx == SelectSeq([i \in 1..Len(td) |-> i],
                         LAMBDA i : PreviewMask(td[i], date_val, job_filter, sel_job))
    IN  [n \in 1..Len(idx) |->
            [IDX |-> idx[n] - 1, row |-> PreviewRow(td[idx[n]], with_hours, today)]]

PreviewRows ==
    {Row(Job100, <<"7">>, strftime_Ymd(d), NameA, rt, ot, <<>>, h) :
        d \in ExportDates, rt \in {Num(0), Num(3), NaNf}, ot \in {Num(0), Num(2)},
        h \in {Num(MaxTotal), NaNf}}

PreviewContext ==
    {Row(Job100, <<"7">>, strftime_Ymd(Date0919), NameA, Num(3), Num(0), <<>>, Num(MaxTotal)),
     Row(Job4500123, <<"7">>, strftime_Ymd(Date0920), NameA, Num(0), Num(0), <<>>, Num(2))}

InitPreview ==
    /\ td_all \in {<<r>> \o ctx :
                     r \in PreviewRows, ctx \in BoundedSeq(PreviewContext, MaxRows - 1)}
    /\ el = [has_name_col |-> FALSE, rows |-> <<>>]
    /\ has_hours \in BOOLEAN
    /\ disk = NoFiles
    /\ out_paths = <<>>
    /\ files = NoFiles
    /\ last = NoOp
    /\ out_df = <<>>
    /\ legacy_df = <<>>
    /\ log = <<>>
    /\ td_day = <<>>
    /\ split_in = <<>>
    /\ split_out = <<>>
    /\ err = ""
    /\ ui = "none"
    /\ store = NoStore
    /\ sb = NoCall
    /\ wr = NoRun

\* Mutant of DayPreview: the rows shown are written back to the sheet
DayPreviewWritten(date_val, job_filter, sel_job, today) ==
    LET day == day_preview(td_all, has_hours, date_val, job_filter, sel_job, today)
    IN  /\ td_day' = day
        /\ td_all' = [i \in 1..Len(td_all) |->
                         IF \E n \in 1..Len(day) : day[n].IDX = i - 1
                         THEN PreviewRow(td_all[i], has_hours, today)
                         ELSE td_all[i]]
        /\ last' = [op |-> "day_preview", date |-> date_val, paycode_map |-> AppPaycodeMap,
                    unwritable |-> {}, ids |-> {}]
        /\ UNCHANGED <<has_hours, el, disk, out_paths, files, out_df, legacy_df, log,
                       split_in, split_out, err, ui, store, sb, wr>>

\* The day preview: td_day is a copy (td_all.loc[mask].copy()), the sheet is
\* not written
DayPreview(date_val, job_filter, sel_job, today) ==
    /\ td_day' = day_preview(td_all, has_hours, date_val, job_filter, sel_job, today)
    /\ last' = [op |-> "day_preview", date |-> date_val, paycode_map |-> AppPaycodeMap,
                unwritable |-> {}, ids |-> {}]
    /\ UNCHANGED <<td_all, has_hours, el, disk, out_paths, files, out_df, legacy_df, log,
                   split_in, split_out, err, ui, store, sb, wr>>

NextPreview ==
    \E date_val \in ExportDates, job_filter \in BOOLEAN,
       sel_job \in {<<>>, Job100, Job4500123}, today \in ExportDates :
        DayPreview(date_val, job_filter, sel_job, today)

SpecPreview == InitPreview /\ [][NextPreview]_vars

\* The preview and the export of sheets with an "Hours" column, each record a
\* different employee number
InitFallback ==
    /\ td_all \in {Numbered(<<r>> \o ctx) :
                     r \in {p \in PreviewRows : p.Date = strftime_Ymd(Date0919)},
                     ctx \in BoundedSeq(PreviewContext, MaxRows - 1)}
    /\ el \in EmployeeLists
    /\ has_hours \in BOOLEAN
    /\ disk = NoFiles
    /\ out_paths = <<>>
    /\ files = NoFiles
    /\ last = NoOp
    /\ out_df = <<>>
    /\ legacy_df = <<>>
    /\ log = <<>>
    /\ td_day = <<>>
    /\ split_in = <<>>
    /\ split_out = <<>>
    /\ err = ""
    /\ ui = "none"
    /\ store = NoStore
    /\ sb = NoCall
    /\ wr = NoRun

NextFallback ==
    \/ \E today \in ExportDates : DayPreview(Date0919, FALSE, <<>>, today)
    \/ ExportAllJobsForDate(Date0919, {})

SpecFallback == InitFallback /\ [][NextFallback]_vars

----------------------------------------------------------------------------
(* The Time Data sheet under submit, preview, delete and export *)

\* The employees frame of load_lookups: name, trade class, number, night shift
\* and premium columns
StaffRow(name, num, night, prem) ==
    [EmployeeName |-> name, TradeClass |-> <<"T">>, EmployeeNumber |-> num,
     NightShift |-> night, Premium |-> prem]

Staff == <<StaffRow(NameA, <<"1">>, <<"y">>, NaN), StaffRow(NameB, <<"2">>, NaN, <<"2","6","1">>)>>

\* The payload of the Submit handler for one employee; the sheet's "Hours"
\* column, when it has one, gets "" and reads back as NaN
submit_payload(emp_row, sel_job, sel_area_code, sel_code_code, date_val, rt_hours, ot_hours, desc) ==
    [JobNumber |-> str(sel_job),
     JobArea |-> _pad_job_area(sel_area_code),
     Date |-> strftime_Ymd(date_val),
     Name |-> emp_row.EmployeeName,
     ClassType |-> sel_code_code,
     TradeClass |-> emp_row.TradeClass,
     EmployeeNumber |-> emp_row.EmployeeNumber,
     RT |-> Num(rt_hours),
     OT |-> Num(ot_hours),
     NightShift |-> _clean_blank(emp_row.NightShift, TRUE),
     Premium |-> _clean_blank(emp_row.Premium, FALSE),
     Comments |-> upper(desc),
     Hours |-> NaNf]

\* A cell as pd.read_excel returns it after ws.append wrote it: the workbook keeps
\* no empty text, so "" comes back as NaN; other texts and numbers come back as
\* written, and a NaN of the frame is taken to be written as an empty cell
sheet_cell(x) == IF x = <<>> THEN NaN ELSE x

\* A row of the Time Data sheet as _read_time_data_df returns it once written
sheet_row(r) ==
    [r EXCEPT !.JobNumber = sheet_cell(@), !.JobArea = sheet_cell(@),
              !.Date = sheet_cell(@), !.Name = sheet_cell(@),
              !.ClassType = sheet_cell(@), !.TradeClass = sheet_cell(@),
              !.EmployeeNumber = sheet_cell(@), !.NightShift = sheet_cell(@),
              !.Premium = sheet_cell(@), !.Comments = sheet_cell(@)]

\* Mutant of _append_dict_row_to_time_data: the payload is written over the last row
_append_dict_row_over_last(td, payload) ==
    IF td = <<>> THEN <<sheet_row(payload)>> ELSE [td EXCEPT ![Len(td)] = sheet_row(payload)]

\* _append_dict_row_to_time_data: ws.append(row_vals), wb.save
_append_dict_row_to_time_data(td, payload) == Append(td, sheet_row(payload))

\* _replace_time_data_with_df: the sheet is recreated from the rows of df
_replace_time_data_with_df(df) == [i \in 1..Len(df) |-> sheet_row(df[i])]

\* Mutant of submit_next: the loop ends at the first employee that fails
submit_break(sel_emps, failed) == IF failed THEN <<>> ELSE Tail(sel_emps)

\* The employees the loop of the Submit handler goes on with: "continue" or the
\* except clause, both go to the next employee
submit_next(sel_emps, failed) == Tail(sel_emps)

\* The loop of the Submit handler over sel_emps; acc is [td, successes]: the row
\* of an employee found in the employees frame is appended and counted unless
\* _append_dict_row_to_time_data raises (unappendable: the employees for whom
\* the workbook cannot be saved)
RECURSIVE submit_rows(_, _, _, _, _, _, _, _, _, _)
submit_rows(acc, sel_emps, sel_job, sel_area_code, sel_code_code, date_val, rt_hours, ot_hours, desc, unappendable) ==
    IF sel_emps = <<>> THEN acc
    ELSE LET found == SelectSeq(Staff, LAMBDA e : str(e.EmployeeName) = str(Head(sel_emps)))
             failed == found = <<>> \/ Head(sel_emps) \in unappendable
         IN  submit_rows(
                 IF failed THEN acc
                 ELSE [td |-> _append_dict_row_to_time_data(
                                  acc.td, submit_payload(found[1], sel_job, sel_area_code,
                                                         sel_code_code, date_val, rt_hours,
                                                         ot_hours, desc)),
                       successes |-> acc.successes + 1],
                 submit_next(sel_emps, failed), sel_job, sel_area_code, sel_code_code,
                 date_val, rt_hours, ot_hours, desc, unappendable)

MsgSelectEmployee == "Please select at least one employee."
MsgSelectJob == "Please select a Job Number, Job Area, and Class Type."
MsgAdded == "Added"
MsgNoneSelected == "No rows selected."
MsgNoValid == "No valid rows selected."
MsgDeleted == "Deleted"

\* Mutant of ids_to_delete: "Delete All" is taken for a text that int() rejects
ids_to_delete_numeric_only(selected_deletions, day) ==
    {int(v) : v \in {w \in selected_deletions : isdigit(w)}}

\* td_all.drop(index=ids_to_delete): the rows whose index (from 0) is not in ids
drop(td, ids) ==
    LET keep == SelectSeq([i \in 1..Len(td) |-> i], LAMBDA i : (i - 1) \notin ids)
    IN  [n \in 1..Len(keep) |-> td[keep[n]]]

DeleteAll == <<"Delete All">>

\* ids_to_delete of the Delete handler: every index of td_day for "Delete All",
\* else the selected texts that int() parses
ids_to_delete(selected_deletions, day) ==
    IF DeleteAll \in selected_deletions THEN {day[n].IDX : n \in 1..Len(day)}
    ELSE {int(v) : v \in {w \in selected_deletions : isdigit(w)}}

\* Exports explored in one history of the sheet
MaxSheetExports == 1

SheetRows ==
    {sheet_row(Row(Job100, <<"7">>, strftime_Ymd(Date0919), NameA, Num(0), Num(0), <<>>,
                   Num(MaxTotal))),
     sheet_row(Row(Job4500123, <<"7">>, strftime_Ymd(Date0920), NameB, Num(RegularCap),
                   Num(2), <<"2","6","1">>, NaNf))}

InitSheet ==
    /\ td_all \in BoundedSeq(SheetRows, MaxRows)
    /\ el = [has_name_col |-> TRUE,
             rows |-> [i \in 1..Len(Staff) |-> Employee(Staff[i].EmployeeName, <<"R">>)]]
    /\ has_hours = FALSE
    /\ disk = NoFiles
    /\ out_paths = <<>>
    /\ files = NoFiles
    /\ last = NoOp
    /\ out_df = <<>>
    /\ legacy_df = <<>>
    /\ log = <<>>
    /\ td_day = <<>>
    /\ split_in = <<>>
    /\ split_out = <<>>
    /\ err = ""
    /\ ui = "none"
    /\ store = NoStore
    /\ sb = NoCall
    /\ wr = NoRun

\* The Submit button, and the day preview that the same run and the rerun render
Submit(sel_emps, sel_job, sel_area_code, sel_code_code, date_val, rt_hours, ot_hours, desc, job_filter, today, unappendable) ==
    \E r \in {IF sel_emps = <<>> \/ sel_job = <<>> \/ sel_area_code = <<>>
                   \/ sel_code_code = <<>>
                THEN [td |-> td_all, successes |-> 0]
                ELSE submit_rows([td |-> td_all, successes |-> 0], sel_emps, sel_job,
                                 sel_area_code, sel_code_code, date_val, rt_hours,
                                 ot_hours, desc, unappendable)} :
        /\ Len(r.td) <= MaxRows
        /\ td_all' = r.td
        /\ ui' = IF sel_emps = <<>> THEN MsgSelectEmployee
                 ELSE IF sel_job = <<>> \/ sel_area_code = <<>> \/ sel_code_code = <<>>
                 THEN MsgSelectJob
                 ELSE IF r.successes > 0 THEN MsgAdded ELSE "none"
        /\ td_day' = day_preview(r.td, has_hours, date_val, job_filter, sel_job, today)
        /\ last' = [op |-> "submit", date |-> date_val, paycode_map |-> AppPaycodeMap,
                    unwritable |-> {}, ids |-> {}, successes |-> r.successes,
                    sel_emps |-> sel_emps, unappendable |-> unappendable,
                    valid |-> (sel_emps # <<>> /\ sel_job # <<>> /\ sel_area_code # <<>>
                               /\ sel_code_code # <<>>)]
        /\ err' = ""
        /\ UNCHANGED <<has_hours, el, disk, out_paths, files, out_df, legacy_df, log,
                       split_in, split_out, store, sb, wr>>

\* The "Delete selected rows" button of the day preview: the run renders the
\* preview, drops the selected rows, rewrites the sheet and reruns
DeleteSelected(date_val, job_filter, sel_job, today, selected_deletions) ==
    LET day == day_preview(td_all, has_hours, date_val, job_filter, sel_job, today)
        ids == ids_to_delete(selected_deletions, day)
        new_td == IF selected_deletions = {} \/ ids = {} THEN td_all
                  ELSE _replace_time_data_with_df(drop(td_all, ids))
    IN  /\ selected_deletions \subseteq
              {DeleteAll} \cup {IntToStr(day[n].IDX) : n \in 1..Len(day)}
        /\ td_all' = new_td
        /\ ui' = IF selected_deletions = {} THEN MsgNoneSelected
                 ELSE IF ids = {} THEN MsgNoValid ELSE MsgDeleted
        /\ td_day' = day_preview(new_td, has_hours, date_val, job_filter, sel_job, today)
        /\ last' = [op |-> "delete", date |-> date_val, paycode_map |-> AppPaycodeMap,
                    unwritable |-> {}, ids |-> ids, selected |-> selected_deletions,
                    job_filter |-> job_filter, sel_job |-> sel_job]
        /\ err' = ""
        /\ UNCHANGED <<has_hours, el, disk, out_paths, files, out_df, legacy_df, log,
                       split_in, split_out, store, sb, wr>>

\* The form's date stays at one day; the sheet also holds rows of another day
NextSheet ==
    \/ \E sel_emps \in {<<>>, <<NameA>>, <<NameA, NameB>>}, sel_job \in {<<>>, Job100} :
            Submit(sel_emps, sel_job, <<"7">>, <<"C","1">>, Date0919, RegularCap, 0,
                   <<"f","i","x">>, FALSE, Date0919, {})
    \/ DayPreview(Date0919, FALSE, <<>>, Date0919)
    \/ \E selected_deletions \in
              SUBSET ({DeleteAll} \cup {IntToStr(i) : i \in 0..(MaxRows - 1)}) :
            DeleteSelected(Date0919, FALSE, <<>>, Date0919, selected_deletions)
    \/ Len(log) < MaxSheetExports /\ ExportAllJobsForDate(Date0919, {})

SpecSheet == InitSheet /\ [][NextSheet]_vars

\* The Submit button with every combination of selections left empty, and with
\* the workbook refusing the row of some of the employees
InitSubmit ==
    /\ td_all \in BoundedSeq(SheetRows, MaxRows - 1)
    /\ el = [has_name_col |-> TRUE,
             rows |-> [i \in 1..Len(Staff) |-> Employee(Staff[i].EmployeeName, <<"R">>)]]
    /\ InitCommon

NextSubmit ==
    \E sel_emps \in BoundedSeq({NameA, NameB}, 2), unappendable \in SUBSET {NameA, NameB} :
        \E sel_job \in {<<>>, Job100}, sel_area_code \in {<<>>, <<"7">>} :
            \E sel_code_code \in {<<>>, <<"C","1">>} :
                Submit(sel_emps, sel_job, sel_area_code, sel_code_code, Date0919,
                       RegularCap, 0, <<"f","i","x">>, FALSE, Date0919, unappendable)

SpecSubmit == InitSubmit /\ [][NextSubmit]_vars

\* A sheet of two jobs on one day and a row of the next day, for the deletions
\* from the day preview
DeleteRows ==
    SheetRows \cup
    {sheet_row(Row(Job4500123, <<"7">>, strftime_Ymd(Date0919), NameB, Num(0), Num(2), <<>>,
                   NaNf))}

InitDelete ==
    /\ td_all \in BoundedSeq(DeleteRows, MaxRows)
    /\ el = [has_name_col |-> TRUE,
             rows |-> [i \in 1..Len(Staff) |-> Employee(Staff[i].EmployeeName, <<"R">>)]]
    /\ InitCommon

\* The user previews either day, with or without the job filter, and deletes
NextDelete ==
    \E date_val \in {Date0919, Date0920}, job_filter \in BOOLEAN :
        \E selected_deletions \in
              SUBSET ({DeleteAll} \cup {IntToStr(i) : i \in 0..(MaxRows - 1)}) :
            DeleteSelected(date_val, job_filter, Job100, Date0919, selected_deletions)

SpecDelete == InitDelete /\ [][NextDelete]_vars

----------------------------------------------------------------------------
(* Properties of the transforms (SpecRows) *)

\* The lines of a frame that carry the employee number of row i of the batch
LinesOf(df, i) == SelectSeq(df, LAMBDA l : l.PersonNumber = td_all[i].EmployeeNumber)

WithCode(ls, code) == SelectSeq(ls, LAMBDA l : l.PayCode = code)

CodeOf(kind, default) == dict_get(last.paycode_map, kind, default)

\* The subsistence signal of a premium cell, as the specification words it: the
\* cell trimmed, NaN and the text "nan" counting as empty
CleanedPremium(prem) ==
    IF prem = NaN THEN <<>>
    ELSE IF upper(strip(prem)) = <<"N","A","N">> THEN <<>> ELSE strip(prem)

SubsistenceSignal(prem) ==
    \/ Contains(upper(CleanedPremium(prem)), <<"S","U","B","S","I","S","T">>)
    \/ Contains(CleanedPremium(prem), <<"2","6","1">>)

ZeroHoursNoSignal(r) == r.RT = Num(0) /\ r.OT = Num(0) /\ ~SubsistenceSignal(r.Premium)

\* C1: a record whose regular and overtime hours are both 0 and whose premium
\* code carries no subsistence signal yields no line item, in build_export_rows
\* and in _map_hours_rows, and no emitted line has Hours = 0.
C1_ZeroRecordDropped ==
    /\ last.op = "build_export_rows" =>
          /\ \A i \in 1..Len(td_all) : ZeroHoursNoSignal(td_all[i]) => LinesOf(out_df, i) = <<>>
          /\ \A n \in 1..Len(out_df) : out_df[n].Hours # Num(0)
    /\ last.op = "_map_hours_rows" =>
          /\ \A i \in 1..Len(td_all) : ZeroHoursNoSignal(td_all[i]) => LinesOf(legacy_df, i) = <<>>
          /\ \A n \in 1..Len(legacy_df) : legacy_df[n].Hours # Num(0)

\* C1 witness: build_export_rows has run on a batch holding a zero-hours record
\* without signal next to a record that did yield lines.
C1_Witness ==
    /\ last.op = "build_export_rows"
    /\ Len(td_all) >= 2
    /\ ZeroHoursNoSignal(td_all[1])
    /\ out_df # <<>>

\* One REG (resp. OT) line with the record's hours when they are positive, none otherwise
OneLineFor(ls, code, h) ==
    IF gt0(h) THEN Len(WithCode(ls, code)) = 1 /\ WithCode(ls, code)[1].Hours = h
    ELSE WithCode(ls, code) = <<>>

\* C2: every record with rt_hours > 0 yields exactly one REG line with Hours =
\* rt_hours, every record with ot_hours > 0 exactly one OT line with Hours =
\* ot_hours, and a record with zero hours of a kind no line of that kind.
C2_OneLinePerPositiveHours ==
    /\ last.op = "build_export_rows" =>
          \A i \in 1..Len(td_all) :
              /\ OneLineFor(LinesOf(out_df, i), CodeOf("REG", "211"), td_all[i].RT)
              /\ OneLineFor(LinesOf(out_df, i), CodeOf("OT", "212"), td_all[i].OT)
    /\ last.op = "_map_hours_rows" =>
          \A i \in 1..Len(td_all) :
              /\ OneLineFor(LinesOf(legacy_df, i), CodeOf("REG", "211"), td_all[i].RT)
              /\ OneLineFor(LinesOf(legacy_df, i), CodeOf("OT", "212"), td_all[i].OT)

\* C3: in build_export_rows a record yields exactly one SUBSISTENCE line, with
\* Hours = 1.0, if and only if its premium code carries the subsistence signal,
\* whatever its hours are; an empty, blank or NaN premium code yields none.
C3_OneSubsistenceLineIffSignal ==
    last.op = "build_export_rows" =>
        \A i \in 1..Len(td_all) :
            LET subs == WithCode(LinesOf(out_df, i), CodeOf("SUBSISTENCE", "261"))
            IN  IF SubsistenceSignal(td_all[i].Premium)
                THEN Len(subs) = 1 /\ subs[1].Hours = Num(1)
                ELSE subs = <<>>

----------------------------------------------------------------------------
(* Properties of the per-job exports (Spec) *)

DayRows(d) == SelectSeq(td_all, LAMBDA r : r.Date = strftime_Ymd(d))

\* The job numbers of a day: trimmed, as export_all_jobs_for_date keys them, and
\* as the exact text, as build_per_job_exports keys them
TrimmedJobs(d) == {strip(DayRows(d)[i].JobNumber) : i \in 1..Len(DayRows(d))}
ExactJobs(d) == {DayRows(d)[i].JobNumber : i \in 1..Len(DayRows(d))}

\* The line items of the records of one job, record by record in sheet order
AppLinesOfJob(d, job) ==
    Flatten([i \in 1..Len(DayRows(d)) |->
        IF strip(DayRows(d)[i].JobNumber) = job
        THEN build_export_rows(<<DayRows(d)[i]>>, el, last.paycode_map) ELSE <<>>])

LegacyLinesOfJob(d, job) ==
    Flatten([i \in 1..Len(DayRows(d)) |->
        IF DayRows(d)[i].JobNumber = job
        THEN _map_hours_rows(<<DayRows(d)[i]>>, last.paycode_map) ELSE <<>>])

\* The file name written out digit by digit: mm-dd-yyyy - job - Daily Time Import.xlsx
TwoDigits(n) == <<DigitChars[(n \div 10) + 1], DigitChars[(n % 10) + 1]>>
FourDigits(n) == TwoDigits(n \div 100) \o TwoDigits(n % 100)
ExpectedName(d, job) ==
    TwoDigits(d.m) \o <<"-">> \o TwoDigits(d.d) \o <<"-">> \o FourDigits(d.y)
        \o <<" - ">> \o job \o <<" - Daily Time Import.xlsx">>
ExpectedPath(d, job) == <<MonthNames[d.m], ExpectedName(d, job)>>

RanApp == last.op = "export_all_jobs_for_date"
RanLegacy == last.op = "build_per_job_exports"

\* C4 as claimed: a job group that produces zero line items yields no document,
\* neither from build_per_job_exports nor from export_all_jobs_for_date.
C4_NoDocumentForEmptyGroup ==
    /\ RanApp =>
          \A job \in TrimmedJobs(last.date) :
              AppLinesOfJob(last.date, job) = <<>> =>
                  /\ ExpectedPath(last.date, job) \notin Range(out_paths)
                  /\ ExpectedPath(last.date, job) \notin DOMAIN disk
    /\ RanLegacy =>
          \A job \in ExactJobs(last.date) :
              LegacyLinesOfJob(last.date, job) = <<>> =>
                  ExpectedName(last.date, job) \notin DOMAIN files

\* C4 amended: build_per_job_exports returns no document for a job group that
\* produces zero line items and never an empty document; export_all_jobs_for_date
\* writes and returns a header-only document for such a group and logs it "Empty".
C4_EmptyGroupSkippedOnlyByLegacy ==
    /\ RanLegacy =>
          /\ \A job \in ExactJobs(last.date) :
                LegacyLinesOfJob(last.date, job) = <<>> =>
                    ExpectedName(last.date, job) \notin DOMAIN files
          /\ \A f \in DOMAIN files : files[f] # <<>>
    /\ RanApp =>
          \A job \in TrimmedJobs(last.date) :
              AppLinesOfJob(last.date, job) = <<>> =>
                  /\ ExpectedPath(last.date, job) \in Range(out_paths)
                  /\ disk[ExpectedPath(last.date, job)] = <<>>
                  /\ \E n \in 1..Len(log) :
                        /\ log[n].JobNumber = job
                        /\ log[n].FileName = ExpectedName(last.date, job)
                        /\ log[n].EntriesCount = 0
                        /\ log[n].Status = "Empty"

\* C4 witness: after build_per_job_exports returned documents without one for a
\* job whose records produce no line item, export_all_jobs_for_date has written a
\* header-only document for such a job.
C4_Witness ==
    /\ RanApp
    /\ files # NoFiles
    /\ \E job \in TrimmedJobs(last.date) :
          /\ AppLinesOfJob(last.date, job) = <<>>
          /\ ExpectedPath(last.date, job) \in Range(out_paths)
          /\ disk[ExpectedPath(last.date, job)] = <<>>
          /\ ExpectedName(last.date, job) \notin DOMAIN files

LegacyJobsWithLines(d) == {job \in ExactJobs(d) : LegacyLinesOfJob(d, job) # <<>>}

RECURSIVE SumLen(_, _)
SumLen(f, S) ==
    IF S = {} THEN 0
    ELSE LET x == CHOOSE x \in S : TRUE IN Len(f[x]) + SumLen(f, S \ {x})

C6_FileNameExact ==
    /\ RanApp =>
          /\ {out_paths[n][2] : n \in 1..Len(out_paths)}
                = {ExpectedName(last.date, job) : job \in TrimmedJobs(last.date)}
          /\ \A m, n \in 1..Len(out_paths) : out_paths[m][2] = out_paths[n][2] => m = n
          /\ (last.date = Date0919 /\ Job4500123 \in TrimmedJobs(last.date)) =>
                \E n \in 1..Len(out_paths) :
                    out_paths[n][2] = <<"0","9","-","1","9","-","2","0","2","5"," - ",
                                        "4","5","0","0","1","2","3",
                                        " - Daily Time Import.xlsx">>
    /\ RanLegacy =>
          /\ DOMAIN files = {ExpectedName(last.date, job) : job \in LegacyJobsWithLines(last.date)}
          /\ Cardinality(DOMAIN files) = Cardinality(LegacyJobsWithLines(last.date))
          /\ (last.date = Date0919 /\ Job4500123 \in LegacyJobsWithLines(last.date)) =>
                <<"0","9","-","1","9","-","2","0","2","5"," - ","4","5","0","0","1","2","3",
                  " - Daily Time Import.xlsx">> \in DOMAIN files

\* C6 witness: the export of 2025-09-19 has returned the document of job 4500123
\* next to that of another job.
C6_Witness ==
    /\ RanApp
    /\ last.date = Date0919
    /\ Len(out_paths) = 2
    /\ \E n \in 1..Len(out_paths) : out_paths[n][2] = ExpectedName(Date0919, Job4500123)

\* C10: an export run that follows a run with the same date and pay-code map on
\* the same sheet returns the same documents: the same names and, in each, the
\* same line items in the same order.
C10_RerunSameDocuments ==
    [][/\ (RanApp /\ last' = last /\ td_all' = td_all /\ el' = el) =>
             /\ out_paths' = out_paths
             /\ \A p \in Range(out_paths) : disk'[p] = disk[p]
       /\ (RanLegacy /\ last' = last /\ td_all' = td_all) => files' = files]_vars

\* C10 witness: the export of one day has run twice and returned a document with
\* line items.
C10_Witness ==
    /\ RanApp
    /\ Len(log) >= 2
    /\ log[Len(log)].FileName = log[Len(log) - 1].FileName
    /\ log[Len(log)].EntriesCount > 0
    /\ out_paths # <<>>

----------------------------------------------------------------------------
(* Properties of the job-area cells (SpecPad) *)

AreaIn == td_all[1].JobArea
AreaLines == {out_df[n].JobArea : n \in 1..Len(out_df)}
                 \cup {legacy_df[n].JobArea : n \in 1..Len(legacy_df)}

Zeros(n) == [i \in 1..n |-> "0"]

----------------------------------------------------------------------------
(* Properties of hours_split_by_ot (SpecSplit) *)

\* The day of the week by Sakamoto's method: 0 is Sunday, 6 is Saturday
SakamotoTable == <<0, 3, 2, 5, 0, 3, 5, 1, 4, 6, 2, 4>>
DayOfWeek(d) ==
    LET y == IF d.m < 3 THEN d.y - 1 ELSE d.y
    IN  (y + (y \div 4) - (y \div 100) + (y \div 400) + SakamotoTable[d.m] + d.d) % 7
SaturdayOrSunday(d) == DayOfWeek(d) \in {0, 6}

Min(a, b) == IF a < b THEN a ELSE b
Max(a, b) == IF a > b THEN a ELSE b

SplitCalled == split_in # <<>>
SplitOfNumber == SplitCalled /\ IsIsoDate(split_in[1]) /\ split_in[2].k = "num"

\* C8: for a date text that parses and a total of 0 or more, hours_split_by_ot
\* returns (0, total) on a Saturday or Sunday and (min(total, 8), max(total - 8, 0))
\* on any other day; Saturday 2025-09-20 with 10 gives (0, 10), Tuesday 2025-09-16
\* with 10 gives (8, 2) and with 6 gives (6, 0).
C8_SplitByWeekday ==
    SplitOfNumber =>
        /\ split_out = IF SaturdayOrSunday(to_datetime(split_in[1]))
                       THEN <<Num(0), Num(split_in[2].v)>>
                       ELSE <<Num(Min(split_in[2].v, 8)), Num(Max(split_in[2].v - 8, 0))>>
        /\ (split_in[1] = <<"2","0","2","5","-","0","9","-","2","0">> /\ split_in[2] = Num(10))
              => split_out = <<Num(0), Num(10)>>
        /\ (split_in[1] = <<"2","0","2","5","-","0","9","-","1","6">> /\ split_in[2] = Num(10))
              => split_out = <<Num(8), Num(2)>>
        /\ (split_in[1] = <<"2","0","2","5","-","0","9","-","1","6">> /\ split_in[2] = Num(6))
              => split_out = <<Num(6), Num(0)>>

\* C8 witness: the split of 10 hours on Saturday 2025-09-20 has been computed.
C8_Witness ==
    /\ SplitOfNumber
    /\ split_in[1] = <<"2","0","2","5","-","0","9","-","2","0">>
    /\ split_in[2] = Num(10)
    /\ split_out = <<Num(0), Num(10)>>

----------------------------------------------------------------------------
(* Properties of the day preview (SpecPreview) *)

Stored(e) == td_all[e.IDX + 1]
NonZero(x) == x.k = "num" /\ x.v # 0

\* C9: in the day preview, a record whose stored RT hours or OT hours is not zero
\* keeps both stored values; a record is given the split of its total only if its
\* RT and OT are both zero (a missing value counting as zero) and the sheet has
\* the Hours column, and every such record of the day is given it. (The date text
\* of a shown record parses, so the current day handed to the split is not read.)
C9_FallbackOnlyOverZeroPair ==
    \A n \in 1..Len(td_day) :
        /\ (NonZero(Stored(td_day[n]).RT) \/ NonZero(Stored(td_day[n]).OT)) =>
              /\ td_day[n].row.RT = Stored(td_day[n]).RT
              /\ td_day[n].row.OT = Stored(td_day[n]).OT
        /\ (td_day[n].row.RT # Stored(td_day[n]).RT \/ td_day[n].row.OT # Stored(td_day[n]).OT) =>
              /\ ~NonZero(Stored(td_day[n]).RT)
              /\ ~NonZero(Stored(td_day[n]).OT)
              /\ has_hours
        /\ (has_hours /\ ~NonZero(Stored(td_day[n]).RT) /\ ~NonZero(Stored(td_day[n]).OT)) =>
              <<td_day[n].row.RT, td_day[n].row.OT>>
                  = hours_split_by_ot(Stored(td_day[n]).Date, Stored(td_day[n]).Hours,
                                      last.date)

\* C9 witness: the preview shows a record stored with 3 RT hours and a total of
\* MaxTotal unchanged next to a record with a zero pair that was given its split.
C9_Witness ==
    /\ has_hours
    /\ Len(td_day) >= 2
    /\ \E n \in 1..Len(td_day) :
          /\ Stored(td_day[n]).RT = Num(3)
          /\ Stored(td_day[n]).Hours = Num(MaxTotal)
          /\ td_day[n].row.RT = Num(3)
    /\ \E n \in 1..Len(td_day) :
          /\ Stored(td_day[n]).RT = Num(0) /\ Stored(td_day[n]).OT = Num(0)
          /\ td_day[n].row.RT # Num(0)

----------------------------------------------------------------------------
(* Properties of an export of a day without records (Spec) *)

NoRecordsOf(d) == \A i \in 1..Len(td_all) : SubSeq(str(td_all[i].Date), 1, 10) # strftime_Ymd(d)

\* C11: when the sheet holds no record of the export date, build_per_job_exports
\* returns an empty map, export_all_jobs_for_date returns no path and
\* export_daily_time_report returns None, nothing raises, no document of that date
\* is on the disk, no Exports Log row of that date is written, and the form shows
\* the "No matching rows" message, not "Export failed".
C11_EmptyDateReportsNoRows ==
    /\ (RanLegacy /\ NoRecordsOf(last.date)) => (files = NoFiles /\ err = "")
    /\ (RanApp /\ NoRecordsOf(last.date)) =>
          /\ out_paths = <<>>
          /\ \A p \in DOMAIN disk :
                SubSeq(p[2], 1, 10) # TwoDigits(last.date.m) \o <<"-">>
                                          \o TwoDigits(last.date.d) \o <<"-">>
                                          \o FourDigits(last.date.y)
          /\ \A n \in 1..Len(log) : log[n].Date # strftime_Ymd(last.date)
          /\ err = ""
          /\ ui = MsgNoRows
          /\ ui # MsgFailed

----------------------------------------------------------------------------
(* Properties of malformed hours cells (SpecHours) *)

RanBuildExportRows == last.op = "build_export_rows"
RanMapHoursRows == last.op = "_map_hours_rows"

\* An hours cell read as the claim reads it: 0.0 unless it holds a number
AsZero(x) == IF x.k = "num" THEN x ELSE Num(0)
HoursAsZero(td) == [i \in 1..Len(td) |-> [td[i] EXCEPT !.RT = AsZero(@), !.OT = AsZero(@)]]

\* C12: a record whose RT or OT hours cell is absent or is no number is exported
\* as if the cell held 0.0: the transform does not raise and returns the lines
\* of the batch with such cells read as 0.0, so the other records are exported.
C12_MalformedHoursAsZero ==
    /\ RanBuildExportRows =>
          /\ err = ""
          /\ out_df = build_export_rows(HoursAsZero(td_all), el, last.paycode_map)
          /\ \A i \in 1..Len(td_all) :
                (td_all[i].RT = Num(1) /\ td_all[i].OT = Num(0)) => LinesOf(out_df, i) # <<>>
    /\ RanMapHoursRows =>
          /\ err = ""
          /\ legacy_df = _map_hours_rows(HoursAsZero(td_all), last.paycode_map)
          /\ \A i \in 1..Len(td_all) :
                (td_all[i].RT = Num(1) /\ td_all[i].OT = Num(0)) => LinesOf(legacy_df, i) # <<>>

----------------------------------------------------------------------------
(* Properties of a failing document (SpecForm) *)

\* C13: when the workbook of one job of an export run cannot be written, only
\* that document fails: the document of every other job of the day is written
\* with the line items of its job and its path is returned to the caller.
C13_FailureOnlyFailsThatDocument ==
    RanApp =>
        \A job \in TrimmedJobs(last.date) :
            ExpectedPath(last.date, job) \notin last.unwritable =>
                /\ ExpectedPath(last.date, job) \in Range(out_paths)
                /\ ExpectedPath(last.date, job) \in DOMAIN disk

----------------------------------------------------------------------------
(* Properties of the pay codes (SpecCodes) *)

\* The code a map gives for a kind of line, the default when it has no such key
MapCode(pc, kind) ==
    IF kind \in DOMAIN pc THEN pc[kind]
    ELSE CASE kind = "REG" -> "211" [] kind = "OT" -> "212" [] kind = "SUBSISTENCE" -> "261"

\* The kind of a line of the frame built with the map of load_lookups
KindOfDefault(code) ==
    CASE code = "211" -> "REG" [] code = "212" -> "OT" [] code = "261" -> "SUBSISTENCE"

\* df is base with the pay code of each line replaced by the map's code of its kind
SameButCodes(df, base, pc) ==
    /\ Len(df) = Len(base)
    /\ \A n \in 1..Len(df) :
          df[n] = [base[n] EXCEPT !.PayCode = MapCode(pc, KindOfDefault(base[n].PayCode))]

\* C14: the Pay Code of every line is the code the supplied map gives for the
\* line's kind, or the default 211, 212 or 261 when the map has no such key: the
\* frame is that built with the default codes, with each line's code replaced by
\* the map's code of its kind, so overriding one key changes the lines of that
\* kind only.
C14_PayCodeFromMap ==
    /\ RanBuildExportRows =>
          SameButCodes(out_df, build_export_rows(td_all, el, AppPaycodeMap), last.paycode_map)
    /\ RanMapHoursRows =>
          SameButCodes(legacy_df, _map_hours_rows(td_all, AppPaycodeMap), last.paycode_map)

\* C14 witness: with a map that overrides OT only, a frame has been built that has
\* an OT line with the overriding code and a REG and a SUBSISTENCE line with the
\* default codes.
C14_Witness ==
    /\ RanBuildExportRows
    /\ last.paycode_map = [OT |-> "299"]
    /\ \E n \in 1..Len(out_df) : out_df[n].PayCode = "299" /\ out_df[n].Hours = Num(2)
    /\ \E n \in 1..Len(out_df) : out_df[n].PayCode = "211" /\ out_df[n].Hours = Num(RegularCap)
    /\ \E n \in 1..Len(out_df) : out_df[n].PayCode = "261" /\ out_df[n].Hours = Num(1)

----------------------------------------------------------------------------
(* Properties of the optional cells (SpecBlank) *)

IsNaNToken(c) == c = NaN \/ c = <<"n","a","n">> \/ c = <<"N","a","n">> \/ c = <<"N","A","N">>

OptionalFields ==
    {"TimeRecordType", "OverrideTradeClass", "NightShift", "Premium", "Comments"}

NoNaNTokenIn(sheet) ==
    \A n \in 1..Len(sheet) : \A f \in OptionalFields : ~IsNaNToken(sheet[n][f])

\* C15: in every written line item, an optional field that is unset in the record
\* (NaN, or the text "nan" in any casing) is the empty string: no cell of a
\* document holds a NaN token.
C15_UnsetRenderedEmpty ==
    /\ \A p \in DOMAIN disk : NoNaNTokenIn(disk[p])
    /\ \A f \in DOMAIN files : NoNaNTokenIn(files[f])

----------------------------------------------------------------------------
(* Properties of the descriptive fields (SpecFields) *)

\* The number of lines of record i in a frame: in build_export_rows one per
\* positive hours cell and one for the subsistence signal, for each Employee List
\* row of the record's name (one when there is none); in _map_hours_rows one per
\* positive hours cell
Positive(x) == IF x.k = "num" /\ x.v > 0 THEN 1 ELSE 0
FanOut(r) ==
    IF ~el.has_name_col THEN 1
    ELSE Max(1, Cardinality({k \in 1..Len(el.rows) : el.rows[k].EmployeeName = r.Name}))
AppLineCount(r) ==
    FanOut(r) * (Positive(r.RT) + Positive(r.OT) + (IF SubsistenceSignal(r.Premium) THEN 1 ELSE 0))
LegacyLineCount(r) == Positive(r.RT) + Positive(r.OT)

RECURSIVE AppLinesBefore(_)
AppLinesBefore(i) == IF i = 1 THEN 0 ELSE AppLinesBefore(i - 1) + AppLineCount(td_all[i - 1])
RECURSIVE LegacyLinesBefore(_)
LegacyLinesBefore(i) ==
    IF i = 1 THEN 0 ELSE LegacyLinesBefore(i - 1) + LegacyLineCount(td_all[i - 1])

\* The positions in the frame of the lines of record i
AppPositions(i) == (AppLinesBefore(i) + 1)..(AppLinesBefore(i) + AppLineCount(td_all[i]))
LegacyPositions(i) ==
    (LegacyLinesBefore(i) + 1)..(LegacyLinesBefore(i) + LegacyLineCount(td_all[i]))

PaddedArea(a) == IF a = <<"7">> THEN <<"0","0","7">> ELSE a

Carries(l, r) ==
    /\ l.Date = r.Date
    /\ l.EmployeeName = r.Name
    /\ l.PersonNumber = r.EmployeeNumber
    /\ l.OverrideTradeClass = r.TradeClass
    /\ l.CostCode = r.ClassType
    /\ l.JobArea = PaddedArea(r.JobArea)

\* C16 as claimed: every line of a record carries the record's date, employee
\* name, employee number, trade class, cost code and comments unchanged and its
\* job area padded, in build_export_rows and in _map_hours_rows.
C16_FieldsAndCommentsCarried ==
    /\ RanBuildExportRows =>
          /\ Len(out_df) = AppLinesBefore(Len(td_all) + 1)
          /\ \A i \in 1..Len(td_all) : \A n \in AppPositions(i) :
                Carries(out_df[n], td_all[i]) /\ out_df[n].Comments = td_all[i].Comments
    /\ RanMapHoursRows =>
          /\ Len(legacy_df) = LegacyLinesBefore(Len(td_all) + 1)
          /\ \A i \in 1..Len(td_all) : \A n \in LegacyPositions(i) :
                Carries(legacy_df[n], td_all[i]) /\ legacy_df[n].Comments = td_all[i].Comments

\* C16 amended: every line of a record carries the record's date, employee name,
\* employee number, trade class and cost code unchanged and its job area padded;
\* the record's comments are carried to the Comments column by _map_hours_rows
\* only, the Comments column of every line of build_export_rows being empty.
C16_FieldsCarriedCommentsLegacyOnly ==
    /\ RanBuildExportRows =>
          /\ Len(out_df) = AppLinesBefore(Len(td_all) + 1)
          /\ \A i \in 1..Len(td_all) : \A n \in AppPositions(i) :
                Carries(out_df[n], td_all[i]) /\ out_df[n].Comments = <<>>
    /\ RanMapHoursRows =>
          /\ Len(legacy_df) = LegacyLinesBefore(Len(td_all) + 1)
          /\ \A i \in 1..Len(td_all) : \A n \in LegacyPositions(i) :
                Carries(legacy_df[n], td_all[i]) /\ legacy_df[n].Comments = td_all[i].Comments

\* C16 witness: build_export_rows has built lines for a record of employee B with
\* job area 7 and the comments FIX PUMP, after _map_hours_rows built lines that
\* carry these comments.
C16_Witness ==
    /\ RanBuildExportRows
    /\ td_all[1].Comments = FixPump /\ td_all[1].Name = NameB /\ td_all[1].JobArea = <<"7">>
    /\ AppLineCount(td_all[1]) >= 2
    /\ out_df[1].Comments = <<>> /\ out_df[1].JobArea = <<"0","0","7">>
    /\ legacy_df # <<>> /\ legacy_df[1].Comments = FixPump

----------------------------------------------------------------------------
(* An export run, statement by statement *)

\* Mutant of ws_write: each row is flushed to the file at out_path as it is written
ws_write_through(d, out_path, buf) ==
    [p \in DOMAIN d \cup {out_path} |-> IF p = out_path THEN buf ELSE d[p]]

\* ws.write(...) of write_formatted: the cells go to the worksheet that the
\* workbook object holds; the disk is as it was until wb.close()
ws_write(d, out_path, buf) == d

\* wb.close(): the workbook is stored at out_path with the rows written to it
wb_close(d, out_path, buf) ==
    [p \in DOMAIN d \cup {out_path} |-> IF p = out_path THEN buf ELSE d[p]]

out_path_of(date, job) == <<strftime_B(date), import_file_name(date, job)>>

\* Records with regular and overtime hours and a premium: several lines each
WriteRows ==
    {Row(Job100, <<"7">>, strftime_Ymd(Date0919), NameA, Num(RegularCap), Num(2),
         <<"2","6","1">>, NaNf),
     Row(Job100, <<"7">>, strftime_Ymd(Date0919), NameA, Num(0), Num(0), <<>>, NaNf),
     Row(Job4500123, <<"7">>, strftime_Ymd(Date0919), NameA, Num(RegularCap), Num(0), <<>>,
         NaNf),
     Row(Job100, <<"7">>, strftime_Ymd(Date0920), NameA, Num(0), Num(2), <<>>, NaNf)}

InitWrite ==
    /\ td_all \in BoundedSeq(WriteRows, MaxRows)
    /\ el = [has_name_col |-> TRUE, rows |-> <<Employee(NameA, <<"R">>)>>]
    /\ InitCommon

\* export_all_jobs_for_date up to its loop: [] is returned for a date without rows
StartExportAll(export_date) ==
    LET date_str == strftime_Ymd(export_date)
        subset == DateSubset(td_all, date_str)
    IN  /\ wr.pc = "idle"
        /\ Len(log) + Len(job_nums_of(subset)) <= MaxLog
        /\ IF subset = <<>>
           THEN out_paths' = <<>> /\ wr' = wr
           ELSE /\ wr' = [pc |-> "job", kind |-> "app", date |-> export_date,
                          paycode_map |-> AppPaycodeMap, jobs |-> job_nums_of(subset),
                          df |-> <<>>, buf |-> <<>>, paths |-> <<>>, lg |-> <<>>,
                          fs |-> NoFiles]
                /\ out_paths' = out_paths
        /\ last' = [op |-> "export_all_jobs_for_date", date |-> export_date,
                    paycode_map |-> AppPaycodeMap, unwritable |-> {}, ids |-> {}]
        /\ UNCHANGED <<td_all, has_hours, el, disk, files, out_df, legacy_df, log, td_day,
                       split_in, split_out, err, ui, store, sb>>

\* build_per_job_exports up to its loop: {} is returned for an empty frame
StartBuildPerJob(export_date, paycode_map) ==
    LET df_all == fetch_time_entries_for_date(td_all, strftime_Ymd(export_date))
    IN  /\ wr.pc = "idle"
        /\ IF df_all = <<>>
           THEN files' = NoFiles /\ wr' = wr
           ELSE /\ wr' = [pc |-> "job", kind |-> "legacy", date |-> export_date,
                          paycode_map |-> paycode_map, jobs |-> legacy_job_nums_of(df_all),
                          df |-> <<>>, buf |-> <<>>, paths |-> <<>>, lg |-> <<>>,
                          fs |-> NoFiles]
                /\ files' = files
        /\ last' = [op |-> "build_per_job_exports", date |-> export_date,
                    paycode_map |-> paycode_map, unwritable |-> {}, ids |-> {}]
        /\ UNCHANGED <<td_all, has_hours, el, disk, out_paths, out_df, legacy_df, log,
                       td_day, split_in, split_out, err, ui, store, sb>>

\* The head of the loop body: the frame of the next job is built; the legacy
\* loop goes on to the next job when the frame is empty
BuildJobFrame ==
    /\ wr.pc = "job"
    /\ wr.jobs # <<>>
    /\ LET job == Head(wr.jobs)
           date_str == strftime_Ymd(wr.date)
           df == IF wr.kind = "app"
                 THEN build_export_rows(JobSubset(DateSubset(td_all, date_str), job), el,
                                        wr.paycode_map)
                 ELSE _map_hours_rows(
                          LegacyJobSubset(fetch_time_entries_for_date(td_all, date_str), job),
                          wr.paycode_map)
       IN  wr' = IF wr.kind = "legacy" /\ legacy_skip(df)
                 THEN [wr EXCEPT !.jobs = Tail(@)]
                 ELSE [wr EXCEPT !.pc = "write", !.df = df, !.buf = <<>>]
    /\ UNCHANGED <<td_all, has_hours, el, disk, out_paths, files, last, out_df, legacy_df,
                   log, td_day, split_in, split_out, err, ui, store, sb>>

\* One row of the frame is written: ws.write for each of its cells, or one row
\* of to_excel into the BytesIO buffer
WriteRow ==
    /\ wr.pc = "write"
    /\ Len(wr.buf) < Len(wr.df)
    /\ \E line \in {IF wr.kind = "app" THEN WrittenLine(wr.df[Len(wr.buf) + 1])
                     ELSE LegacySheet(wr.df)[Len(wr.buf) + 1]} :
           /\ wr' = [wr EXCEPT !.buf = Append(@, line)]
           /\ disk' = IF wr.kind = "app"
                      THEN ws_write(disk, out_path_of(wr.date, Head(wr.jobs)),
                                    Append(wr.buf, line))
                      ELSE disk
    /\ UNCHANGED <<td_all, has_hours, el, out_paths, files, last, out_df, legacy_df, log,
                   td_day, split_in, split_out, err, ui, store, sb>>

\* wb.close() and the rest of the loop body: the path and the log row are
\* appended; or the writer is closed and the bytes are put in the dict
CloseDocument ==
    /\ wr.pc = "write"
    /\ Len(wr.buf) = Len(wr.df)
    /\ LET job == Head(wr.jobs)
           file_name == import_file_name(wr.date, job)
           row == [Date |-> strftime_Ymd(wr.date), JobNumber |-> job,
                   EntriesCount |-> Len(wr.df), FileName |-> file_name,
                   Status |-> log_status(Len(wr.df))]
       IN  IF wr.kind = "app"
           THEN /\ disk' = wb_close(disk, out_path_of(wr.date, job), wr.buf)
                /\ wr' = [wr EXCEPT !.pc = "job", !.jobs = Tail(@),
                                    !.paths = Append(@, out_path_of(wr.date, job)),
                                    !.lg = Append(@, row)]
           ELSE /\ disk' = disk
                /\ wr' = [wr EXCEPT !.pc = "job", !.jobs = Tail(@),
                                    !.fs = [f \in DOMAIN wr.fs \cup {file_name} |->
                                               IF f = file_name THEN wr.buf ELSE wr.fs[f]]]
    /\ UNCHANGED <<td_all, has_hours, el, out_paths, files, last, out_df, legacy_df, log,
                   td_day, split_in, split_out, err, ui, store, sb>>

\* After the loop: wb.save(xlsx) and return out_paths; or return files
ReturnExport ==
    /\ wr.pc = "job"
    /\ wr.jobs = <<>>
    /\ IF wr.kind = "app"
       THEN log' = log \o wr.lg /\ out_paths' = wr.paths /\ files' = files
       ELSE log' = log /\ out_paths' = out_paths /\ files' = wr.fs
    /\ wr' = NoRun
    /\ UNCHANGED <<td_all, has_hours, el, disk, last, out_df, legacy_df, td_day, split_in,
                   split_out, err, ui, store, sb>>

NextWrite ==
    \/ \E d \in ExportDates : StartExportAll(d)
    \/ \E d \in ExportDates, pc \in PaycodeMaps : StartBuildPerJob(d, pc)
    \/ BuildJobFrame
    \/ WriteRow
    \/ CloseDocument
    \/ ReturnExport

SpecWrite == InitWrite /\ [][NextWrite]_vars

----------------------------------------------------------------------------
(* supabase_helpers.py: the time_entries table *)

\* Values of a row's "date": a date, a datetime, a text, or None
DateObj(d) == [k |-> "date", d |-> d, t |-> <<>>]
DateTimeObj(d, t) == [k |-> "datetime", d |-> d, t |-> t]
Text(s) == [k |-> "text", v |-> s]
None == [k |-> "none"]

\* date.isoformat()
isoformat(d) == strftime_Ymd(d)

\* Mutant of _iso_date: a datetime keeps its time of day
_iso_date_keep_time(v) ==
    CASE v.k = "none" -> None
      [] v.k = "date" -> Text(isoformat(v.d))
      [] v.k = "datetime" -> Text(isoformat(v.d) \o <<"T">> \o v.t)
      [] OTHER -> Text(v.v)

\* _iso_date(v): None stays None, a date or datetime gives the date's
\* isoformat(), anything else gives str(v)
_iso_date(v) ==
    CASE v.k = "none" -> None
      [] v.k = "date" -> Text(isoformat(v.d))
      [] v.k = "datetime" -> Text(isoformat(v.d))
      [] OTHER -> Text(v.v)

\* A text that float() parses
NumText(n) == [k |-> "numstr", v |-> n]

\* try: float(x) except Exception: 0.0, of a value that is not None
float_or_zero(x) ==
    CASE x.k = "num" -> x
      [] x.k = "nan" -> x
      [] x.k = "numstr" -> Num(x.v)
      [] OTHER -> Num(0)

HoursKeys == {"rt_hours", "ot_hours"}

\* The copy of one row that add_time_rows sends
add_time_row(r, created_by) ==
    [key \in DOMAIN r \cup {"created_by"} |->
        IF key = "created_by" THEN created_by
        ELSE IF key = "date" THEN _iso_date(r[key])
        ELSE IF key \in HoursKeys /\ r[key].k # "none" THEN float_or_zero(r[key])
        ELSE r[key]]

\* insert(rows2).execute() on the table: every row is stored under a new id, and
\* res.data holds the stored rows
table_insert(st, rows2) ==
    [store |-> [rows |-> st.rows \o [i \in 1..Len(rows2) |->
                                        [id |-> st.next + i - 1, row |-> rows2[i]]],
                next |-> st.next + Len(rows2)],
     data |-> rows2]

\* add_time_rows(rows, created_by): the table it leaves, what it sent, whether
\* it contacted the store, and what it returns
add_time_rows(st, rows, created_by) ==
    LET rows2 == [i \in 1..Len(rows) |-> add_time_row(rows[i], created_by)]
        res == table_insert(st, rows2)
    IN  IF rows = <<>>
        THEN [store |-> st, sent |-> <<>>, contacted |-> FALSE, ret |-> 0]
        ELSE [store |-> res.store, sent |-> rows2, contacted |-> TRUE,
              ret |-> Len(res.data)]

\* delete().in_("id", ids).execute() on the table: the rows whose id is in ids
\* are removed, and res.data holds them
table_delete_in(st, ids) ==
    [store |-> [st EXCEPT !.rows = SelectSeq(@, LAMBDA e : e.id \notin ids)],
     data |-> SelectSeq(st.rows, LAMBDA e : e.id \in ids)]

\* Mutant of delete_by_ids: the in_("id", ids) filter is left out
delete_by_ids_unfiltered(st, ids) ==
    IF ids = {} THEN [store |-> st, contacted |-> FALSE, ret |-> 0]
    ELSE [store |-> [st EXCEPT !.rows = <<>>], contacted |-> TRUE, ret |-> Len(st.rows)]

\* delete_by_ids(ids): the table it leaves, whether it contacted the store, and
\* what it returns
delete_by_ids(st, ids) ==
    LET res == table_delete_in(st, ids)
    IN  IF ids = {} THEN [store |-> st, contacted |-> FALSE, ret |-> 0]
        ELSE [store |-> res.store, contacted |-> TRUE, ret |-> Len(res.data)]

\* Rows records a caller passes: with a date, a datetime, a text with a time of
\* day, None or no date at all; hours as numbers, texts, None or absent
TimeOfDay == <<"1","0",":","3","0",":","0","0">>

StoreRows ==
    {[date |-> DateObj(Date0919), rt_hours |-> Num(RegularCap), ot_hours |-> NumText(2)],
     [date |-> DateTimeObj(Date0920, TimeOfDay), rt_hours |-> BadText, ot_hours |-> Num(0),
      created_by |-> "other"],
     [date |-> Text(strftime_Ymd(Date0919) \o <<"T">> \o TimeOfDay), rt_hours |-> Num(0)],
     [date |-> None, rt_hours |-> NoneCell, ot_hours |-> Num(2)],
     [job_number |-> Text(Job100), ot_hours |-> NaNf]}

Users == {"u1"}

\* Rows and ids explored for the table
MaxStore == 2
MaxIds == 3

InitStore ==
    /\ td_all = <<>>
    /\ el = [has_name_col |-> FALSE, rows |-> <<>>]
    /\ InitCommon

AddTimeRows(rows, created_by) ==
    \E r \in {add_time_rows(store, rows, created_by)} :
        /\ Len(r.store.rows) <= MaxStore
        /\ r.store.next <= MaxIds + 1
        /\ store' = r.store
        /\ sb' = [op |-> "add_time_rows", rows |-> rows, created_by |-> created_by,
                  ids |-> {}, contacted |-> r.contacted, sent |-> r.sent, ret |-> r.ret]
        /\ UNCHANGED <<td_all, has_hours, el, disk, out_paths, files, last, out_df,
                       legacy_df, log, td_day, split_in, split_out, err, ui, wr>>

DeleteByIds(ids) ==
    \E r \in {delete_by_ids(store, ids)} :
        /\ store' = r.store
        /\ sb' = [op |-> "delete_by_ids", rows |-> <<>>, created_by |-> "", ids |-> ids,
                  contacted |-> r.contacted, sent |-> <<>>, ret |-> r.ret]
        /\ UNCHANGED <<td_all, has_hours, el, disk, out_paths, files, last, out_df,
                       legacy_df, log, td_day, split_in, split_out, err, ui, wr>>

NextStore ==
    \/ \E rows \in BoundedSeq(StoreRows, MaxStore), created_by \in Users :
            AddTimeRows(rows, created_by)
    \/ \E ids \in SUBSET (1..MaxIds) : DeleteByIds(ids)

SpecStore == InitStore /\ [][NextStore]_vars

----------------------------------------------------------------------------
(* The export form on days with several entries per employee *)

\* Rows of a day of the Daily Time report
MaxDaily == 3

BandedEmployee(name, band) == [EmployeeName |-> name, TimeRecordType |-> <<"R">>, Band |-> band]

\* An Employee List with an "Indirect / Direct" column: A indirect, B direct
DailyStaff ==
    [has_name_col |-> TRUE,
     rows |-> <<BandedEmployee(NameA, <<"I","N","D","I","R","E","C","T">>),
                BandedEmployee(NameB, <<"D","i","r","e","c","t">>)>>]

DailyRows ==
    {Row(Job100, <<"7">>, strftime_Ymd(Date0919), NameA, Num(RegularCap), Num(0), <<>>, NaNf),
     Row(Job4500123, <<"7">>, strftime_Ymd(Date0919), NameA, Num(0), Num(2), <<>>, NaNf),
     Row(Job100, <<"7">>, strftime_Ymd(Date0919), NameB, Num(RegularCap), Num(0), <<>>, NaNf),
     Row(Job100, <<"7">>, strftime_Ymd(Date0920), NameA, Num(0), Num(2), <<>>, NaNf)}

InitDaily ==
    /\ td_all \in BoundedSeq(DailyRows, MaxDaily)
    /\ el = DailyStaff
    /\ InitCommon

NextDaily == \E d \in ExportDates : ExportAllJobsForDate(d, {})

SpecDaily == InitDaily /\ [][NextDaily]_vars

\* Entries explored beyond the capacity of a band
MaxOver == 1

NameI1 == <<"I","1">>
NameI2 == <<"I","2">>
NameD1 == <<"D","1">>

\* n rows of one employee on the day
RowsOf(name, n) ==
    [i \in 1..n |->
        Row(Job100, <<"7">>, strftime_Ymd(Date0919), name, Num(RegularCap), Num(0), <<>>, NaNf)]

BandStaff ==
    [has_name_col |-> TRUE,
     rows |-> <<BandedEmployee(NameI1, BandIndirect), BandedEmployee(NameI2, BandIndirect),
                BandedEmployee(NameD1, BandDirect)>>]

\* Days whose entries fill a band of the template to its last rows and beyond
InitBands ==
    /\ \E n1 \in 0..(MaxOver + 1) :
          \E n2 \in (2 * (INDIRECT_END - INDIRECT_START + 1) - 3)
                        ..(2 * (INDIRECT_END - INDIRECT_START + 1) + 2 * MaxOver) :
            \E nd \in {0} \cup ((2 * (DIRECT_END - DIRECT_START + 1) - 1)
                                    ..(2 * (DIRECT_END - DIRECT_START + 1) + 2 * MaxOver)) :
                td_all = RowsOf(NameI1, n1) \o RowsOf(NameD1, nd) \o RowsOf(NameI2, n2)
    /\ el = BandStaff
    /\ InitCommon

NextBands == ExportAllJobsForDate(Date0919, {})

SpecBands == InitBands /\ [][NextBands]_vars

----------------------------------------------------------------------------
(* C17 *)

\* The rows of td whose index (from position i) is not in ids, in their order
RECURSIVE RowsNotIn(_, _, _)
RowsNotIn(td, ids, i) ==
    IF td = <<>> THEN <<>>
    ELSE (IF i \in ids THEN <<>> ELSE <<Head(td)>>) \o RowsNotIn(Tail(td), ids, i + 1)

\* C17: across submit, day preview, delete and export no stored entry is modified
\* in place: a step either leaves the sheet's rows as they were, or is a submit
\* that keeps every row and adds rows after them, or is a delete that removes
\* exactly the rows selected in the preview and keeps the others as written
C17_EntriesNeverModifiedInPlace ==
    [][\/ td_all' = td_all
       \/ /\ last'.op = "submit"
          /\ Len(td_all') > Len(td_all)
          /\ SubSeq(td_all', 1, Len(td_all)) = td_all
       \/ /\ last'.op = "delete"
          /\ last'.ids # {}
          /\ last'.ids \subseteq {i \in 0..(Len(td_all) - 1) :
                                    td_all[i + 1].Date = strftime_Ymd(last'.date)}
          /\ td_all' = RowsNotIn(td_all, last'.ids, 0)]_vars

\* A delete removed some rows and the sheet still holds a submitted row
C17_Witness ==
    /\ last.op = "delete"
    /\ last.ids # {}
    /\ \E i \in 1..Len(td_all) : td_all[i].Comments = <<"F","I","X">>

----------------------------------------------------------------------------
(* C18 *)

\* The document of some date and job of the sheet, with every line of the job
CompleteDocument(p, content) ==
    \E d \in ExportDates :
        \E job \in Range(job_nums_of(DateSubset(td_all, strftime_Ymd(d)))) :
            /\ p = out_path_of(d, job)
            /\ LET df == build_export_rows(
                             JobSubset(DateSubset(td_all, strftime_Ymd(d)), job), el,
                             AppPaycodeMap)
               IN  content = [i \in 1..Len(df) |-> WrittenLine(df[i])]

CompleteLegacyDocument(f, content) ==
    \E d \in ExportDates, pc \in PaycodeMaps :
        LET df_all == fetch_time_entries_for_date(td_all, strftime_Ymd(d))
        IN  \E job \in Range(legacy_job_nums_of(df_all)) :
                /\ f = import_file_name(d, job)
                /\ content = LegacySheet(_map_hours_rows(LegacyJobSubset(df_all, job), pc))

\* C18: a document is handed over only after all its line items are written and
\* it is closed: at every point of an export run, each file under a final file
\* name holds every line of its job, each path returned to the caller names such
\* a file, and each document of the returned dict holds every line of its job
C18_NoPartialDocumentVisible ==
    /\ \A p \in DOMAIN disk : CompleteDocument(p, disk[p])
    /\ \A i \in 1..Len(out_paths) : out_paths[i] \in DOMAIN disk
    /\ \A f \in DOMAIN files : CompleteLegacyDocument(f, files[f])

\* A run returned the path of a document of several lines, and another run
\* is part-way through writing a document
C18_Witness ==
    /\ wr.pc = "write"
    /\ 0 < Len(wr.buf)
    /\ Len(wr.buf) < Len(wr.df)
    /\ out_paths # <<>>
    /\ Len(disk[out_paths[1]]) > 1

----------------------------------------------------------------------------
(* C19, C20 *)

IsDateOnlyISO(v) == v.k = "text" /\ \E d \in ExportDates : v.v = isoformat(d)

\* The number a value of rt_hours or ot_hours stands for: 0.0 when it does not parse
AsNumber(x) ==
    CASE x.k = "num" -> x
      [] x.k = "nan" -> x
      [] x.k = "numstr" -> Num(x.v)
      [] OTHER -> Num(0)

\* C19: add_time_rows(rows, created_by) returns the number of rows the store
\* reports as inserted; with an empty list it returns 0 without contacting the
\* store; every row sent carries the given created_by, a date-only ISO date
\* when a date is present, and rt_hours and ot_hours as numbers, 0.0 for a value
\* that does not parse
C19_RowsNormalisedAndCounted ==
    sb.op = "add_time_rows" =>
        /\ sb.rows = <<>> => sb.ret = 0 /\ ~sb.contacted
        /\ sb.rows # <<>> => sb.contacted /\ sb.ret = Len(sb.sent)
        /\ Len(sb.sent) = Len(sb.rows)
        /\ \A i \in 1..Len(sb.sent) :
              LET r == sb.rows[i]
                  c == sb.sent[i]
              IN  /\ c.created_by = sb.created_by
                  /\ ("date" \in DOMAIN r /\ r.date # None) => IsDateOnlyISO(c.date)
                  /\ \A key \in HoursKeys \cap DOMAIN r : c[key] = AsNumber(r[key])

\* C20: delete_by_ids(ids) removes exactly the stored entries whose id is in ids
\* and returns how many were removed, leaving every other stored entry unchanged;
\* with an empty id list it returns 0 and does not contact the store
C20_DeletesExactlyTheIds ==
    [][sb'.op = "delete_by_ids" =>
          /\ store'.rows = SelectSeq(store.rows, LAMBDA e : e.id \notin sb'.ids)
          /\ sb'.ret = Cardinality({i \in 1..Len(store.rows) : store.rows[i].id \in sb'.ids})
          /\ sb'.ids = {} => sb'.ret = 0 /\ ~sb'.contacted /\ store' = store
          /\ sb'.ids # {} => sb'.contacted]_vars

\* A delete removed one entry and left another in the table
C20_Witness ==
    /\ sb.op = "delete_by_ids"
    /\ sb.ret = 1
    /\ Len(store.rows) = 1
    /\ store.rows[1].id \notin sb.ids

----------------------------------------------------------------------------
(* C21 *)

\* C21: hours_split_by_ot is a pure function of (date, total_hours): a call
\* that follows a call with the same date argument and the same total returns
\* the same (rt, ot) pair, whatever the current day of either call is,
\* including when the date argument cannot be parsed
C21_SplitIsPure ==
    [][(/\ split_in # <<>>
        /\ split_in'[1] = split_in[1]
        /\ split_in'[2] = split_in[2]) => split_out' = split_out]_vars

----------------------------------------------------------------------------
(* C22 *)

\* The export form ran for a day on which some named employee has entries
ExportedDay == DateSubset(td_all, strftime_Ymd(last.date))
DailyReportDue ==
    /\ last.op = "export_all_jobs_for_date"
    /\ \E i \in 1..Len(ExportedDay) : daily_emp(ExportedDay[i]) # <<>>

RowsOfEmployee(placed, emp) == SelectSeq(placed, LAMBDA pl : pl.emp = emp)

\* C22: in the Daily Time report of the day, every employee with n entries
\* occupies exactly ceil(n/2) rows, each holding at most two of the employee's
\* entries in input order; employees banded Indirect are placed only in the
\* indirect band, which starts at row 8, all others only in the direct band,
\* which starts at row 32 or later; no row is given to two employees or chunks
C22_TwoEntriesPerRowInBand ==
    DailyReportDue =>
        /\ daily_out_path(strftime_Ymd(last.date)) \in DOMAIN disk
        /\ LET rep == disk[daily_out_path(strftime_Ymd(last.date))]
               placed == rep.placed
               emps == {daily_emp(ExportedDay[i]) : i \in 1..Len(ExportedDay)} \ {<<>>}
           IN  /\ \A emp \in emps :
                     LET mine == RowsOfEmployee(placed, emp)
                         n == Len(SelectSeq(ExportedDay, LAMBDA r : daily_emp(r) = emp))
                     IN  /\ Len(mine) = (n + 1) \div 2
                         /\ \A k \in 1..Len(mine) : Len(mine[k].entries) \in 1..2
                         /\ Flatten([k \in 1..Len(mine) |-> mine[k].entries])
                               = entries_of(ExportedDay, emp)
                         /\ \A k \in 1..Len(mine) :
                               IF band_get(_employee_band(el), emp) = BandIndirect
                               THEN mine[k].row \in 8..rep.bands.ind_end
                               ELSE mine[k].row \in rep.bands.dir_start..rep.bands.dir_end
               /\ rep.bands.ind_end < rep.bands.dir_start
               /\ rep.bands.dir_start >= 32
               /\ \A i, j \in 1..Len(placed) : placed[i].row = placed[j].row => i = j
               /\ \A i \in 1..Len(placed) : placed[i].emp \in emps

----------------------------------------------------------------------------
(* C23 *)

\* The indexes (from 0) of the rows of the previewed day, under the job filter
PreviewedIndexes(td, date_val, job_filter, sel_job) ==
    {i \in 0..(Len(td) - 1) :
        /\ SubSeq(str(td[i + 1].Date), 1, 10) = strftime_Ymd(date_val)
        /\ (job_filter /\ sel_job # <<>>)
              => strip(str(td[i + 1].JobNumber)) = strip(sel_job)}

SelectedIndexes(selected) == {i \in 0..MaxTotal : IntToStr(i) \in selected}

----------------------------------------------------------------------------
(* C24 *)

\* C24: in the Daily Time report of a day, once the bands are extended the rows
\* of each band are at least the rows calc_needed counts for it, so every chunk
\* is allocated a row; extending the indirect band moves the direct band down
\* by the same number of rows, and the bands do not overlap
C24_BandsFitAndDisjoint ==
    DailyReportDue =>
        /\ daily_out_path(strftime_Ymd(last.date)) \in DOMAIN disk
        /\ LET b == disk[daily_out_path(strftime_Ymd(last.date))].bands
               placed == disk[daily_out_path(strftime_Ymd(last.date))].placed
               needed_ind == calc_needed(ExportedDay, _employee_band(el), BandIndirect)
               needed_dir == calc_needed(ExportedDay, _employee_band(el), BandDirect)
           IN  /\ b.ind_end - b.ind_start + 1 >= needed_ind
               /\ b.dir_end - b.dir_start + 1 >= needed_dir
               /\ Len(placed) = needed_ind + needed_dir
               /\ b.dir_start - DIRECT_START = b.ind_end - INDIRECT_END
               /\ b.ind_end < b.dir_start

----------------------------------------------------------------------------
(* C25 *)

\* export_all_jobs_for_date returned: neither build_export_rows nor
\* write_formatted raised
ExportAllReturned(e) == e \notin {"ValueError", "FileCreateError"}

JobNumbersOn(td, date_str) ==
    {strip(str(r.JobNumber)) : r \in Range(DateSubset(td, date_str))}

\* C25: a call of export_all_jobs_for_date that returns appends to the Exports
\* Log exactly one row per job number of the date, in ascending order of the
\* job number; the Entries Count of a row is the number of lines written to the
\* file of the job, its Status is "Created" when the count is positive and
\* "Empty" otherwise; as many paths are returned as rows are appended
C25_OneLogRowPerJob ==
    [][(last'.op = "export_all_jobs_for_date" /\ ExportAllReturned(err')) =>
          LET date_str == strftime_Ymd(last'.date)
              appended == SubSeq(log', Len(log) + 1, Len(log'))
          IN  /\ SubSeq(log', 1, Len(log)) = log
              /\ {appended[i].JobNumber : i \in 1..Len(appended)}
                    = JobNumbersOn(td_all, date_str)
              /\ \A i, j \in 1..Len(appended) :
                    i < j => StrLess(appended[i].JobNumber, appended[j].JobNumber)
              /\ \A i \in 1..Len(appended) :
                    LET path == <<strftime_B(last'.date), appended[i].FileName>>
                    IN  /\ path \in DOMAIN disk'
                        /\ appended[i].FileName
                              = import_file_name(last'.date, appended[i].JobNumber)
                        /\ appended[i].EntriesCount = Len(disk'[path])
                        /\ appended[i].Status
                              = (IF Len(disk'[path]) > 0 THEN "Created" ELSE "Empty")
              /\ Len(out_paths') = Len(appended)]_vars

\* An export of a day of two jobs, one with lines and one without
C25_Witness ==
    /\ last.op = "export_all_jobs_for_date"
    /\ ExportAllReturned(err)
    /\ Len(out_paths) = 2
    /\ Len(log) = 2
    /\ log[1].Status = "Created" /\ log[1].EntriesCount > 0
    /\ log[2].Status = "Empty" /\ log[2].EntriesCount = 0

----------------------------------------------------------------------------
(* C26 *)

\* The employee number and pay code of each line of a document
NumberAndCode(doc) == [i \in 1..Len(doc) |-> <<doc[i].PersonNumber, doc[i].PayCode>>]

\* The lines claimed for one record: REG, then OT, then SUBSISTENCE
ClaimedLines(r, paycode_map, with_subsistence) ==
    (IF gt0(float_or0(r.RT))
     THEN <<<<r.EmployeeNumber, dict_get(paycode_map, "REG", DefaultREG)>>>> ELSE <<>>)
    \o (IF gt0(float_or0(r.OT))
        THEN <<<<r.EmployeeNumber, dict_get(paycode_map, "OT", DefaultOT)>>>> ELSE <<>>)
    \o (IF with_subsistence /\ subsistence_active(_clean_blank(r.Premium, FALSE))
        THEN <<<<r.EmployeeNumber, dict_get(paycode_map, "SUBSISTENCE", DefaultSUBSISTENCE)>>>>
        ELSE <<>>)

ClaimedDocument(recs, paycode_map, with_subsistence) ==
    Flatten([i \in 1..Len(recs) |-> ClaimedLines(recs[i], paycode_map, with_subsistence)])

RecordsOfJob(td, date_str, job) ==
    SelectSeq(td, LAMBDA r : SubSeq(str(r.Date), 1, 10) = date_str
                             /\ strip(str(r.JobNumber)) = job)

\* C26: in every document of an export that returns, the lines follow the input
\* order of the records of the job and, for each record, are the REG line (if
\* any), then the OT line (if any), then the SUBSISTENCE line (if any; never in
\* the legacy documents); the jobs are processed in ascending order of the job
\* number as a string
C26_LinesInRecordOrder ==
    [][/\ (last'.op = "export_all_jobs_for_date" /\ ExportAllReturned(err')) =>
             LET date_str == strftime_Ymd(last'.date)
                 appended == SubSeq(log', Len(log) + 1, Len(log'))
             IN  /\ \A job \in JobNumbersOn(td_all, date_str) :
                       /\ out_path_of(last'.date, job) \in DOMAIN disk'
                       /\ NumberAndCode(disk'[out_path_of(last'.date, job)])
                             = ClaimedDocument(RecordsOfJob(td_all, date_str, job),
                                               last'.paycode_map, TRUE)
                 /\ \A i, j \in 1..Len(appended) :
                       i < j => StrLess(appended[i].JobNumber, appended[j].JobNumber)
       /\ (last'.op = "build_per_job_exports" /\ err' = "") =>
             \A f \in DOMAIN files' :
                 \E job \in JobNumbersOn(td_all, strftime_Ymd(last'.date)) :
                     /\ f = import_file_name(last'.date, job)
                     /\ NumberAndCode(files'[f])
                           = ClaimedDocument(
                                 RecordsOfJob(td_all, strftime_Ymd(last'.date), job),
                                 last'.paycode_map, FALSE)]_vars

----------------------------------------------------------------------------
(* C27 *)

\* What the two transforms are claimed to agree on, line by line
AgreedCells(df) ==
    [i \in 1..Len(df) |->
        [PayCode |-> df[i].PayCode, Hours |-> df[i].Hours, Date |-> df[i].Date,
         JobArea |-> df[i].JobArea]]

NoSubsistenceSignal(td) ==
    \A i \in 1..Len(td) : ~subsistence_active(_clean_blank(td[i].Premium, FALSE))

NotSubsistenceLine(l, paycode_map) ==
    l.PayCode # dict_get(paycode_map, "SUBSISTENCE", DefaultSUBSISTENCE)

\* C27: given the same records and pay-code map, the lines of build_export_rows
\* other than its SUBSISTENCE lines are the lines of _map_hours_rows: as many,
\* in the same order, with the same pay codes, hours, dates and padded job
\* areas; for records without a subsistence signal build_export_rows has no
\* other lines
C27_TransformsAgree ==
    [][(/\ last.op = "build_export_rows" /\ err = ""
        /\ last'.op = "_map_hours_rows" /\ err' = ""
        /\ last'.paycode_map = last.paycode_map) =>
          /\ AgreedCells(SelectSeq(out_df,
                                   LAMBDA l : NotSubsistenceLine(l, last.paycode_map)))
                = AgreedCells(legacy_df')
          /\ NoSubsistenceSignal(td_all) => Len(out_df) = Len(legacy_df')]_vars

----------------------------------------------------------------------------
(* C28 *)

\* The selected employees whose row the workbook takes
Appendable(sel_emps, unappendable) == SelectSeq(sel_emps, LAMBDA e : e \notin unappendable)

\* C28: a submission appends rows to the Time Data sheet only when at least one
\* employee and a job number, a job area and a cost code are selected; it then
\* appends one row for each selected employee whose append does not fail, in the
\* order selected, whatever happens to the other employees; the count reported
\* is the number of rows appended; an invalid submission appends nothing and
\* shows a warning
C28_OneRowPerEmployee ==
    [][last'.op = "submit" =>
          LET ok == Appendable(last'.sel_emps, last'.unappendable)
              n == Len(td_all)
          IN  IF last'.valid
              THEN /\ Len(td_all') = n + Len(ok)
                   /\ SubSeq(td_all', 1, n) = td_all
                   /\ \A k \in 1..Len(ok) :
                         /\ td_all'[n + k].Name = ok[k]
                         /\ td_all'[n + k].Date = strftime_Ymd(last'.date)
                   /\ last'.successes = Len(td_all') - n
                   /\ (ui' = MsgAdded) <=> (Len(td_all') > n)
              ELSE /\ td_all' = td_all
                   /\ last'.successes = 0
                   /\ ui' \in {MsgSelectEmployee, MsgSelectJob}]_vars

\* Two employees submitted, the row of the first refused: the row of the second
\* is appended and one row is reported
C28_Witness ==
    /\ last.op = "submit"
    /\ last.valid
    /\ last.sel_emps = <<NameA, NameB>>
    /\ last.unappendable = {NameA}
    /\ last.successes = 1
    /\ td_all # <<>>
    /\ td_all[Len(td_all)].Name = NameB
    /\ ui = MsgAdded

----------------------------------------------------------------------------
(* C29 *)

\* The records of the sheet that carry an employee number
RecordsNumbered(td, num) == {r \in Range(td) : r.EmployeeNumber = num}

\* C29: the RT/OT derived from the total is shown in the day preview only: the
\* preview and the export leave the Time Data sheet as it is, and every REG (OT)
\* line of an export that returns carries the stored RT (OT) hours of its
\* record, so a record stored with RT = 0, OT = 0 and a total has no REG or OT
\* line
C29_ExportReadsStoredHours ==
    [][/\ td_all' = td_all
       /\ (last'.op = "export_all_jobs_for_date" /\ ExportAllReturned(err')) =>
             \A path \in Range(out_paths') :
                 \A n \in 1..Len(disk'[path]) :
                     LET l == disk'[path][n]
                         recs == RecordsNumbered(td_all, l.PersonNumber)
                     IN  /\ l.PayCode = "211" => \E r \in recs : gt0(r.RT) /\ l.Hours = r.RT
                         /\ l.PayCode = "212" => \E r \in recs : gt0(r.OT) /\ l.Hours = r.OT
                         /\ l.PayCode \in {"211", "212", "261"}]_vars

\* The preview showed a split for a record stored with a zero pair and a total,
\* and the document then exported for its job has no line of that record
C29_Witness ==
    /\ has_hours
    /\ last.op = "export_all_jobs_for_date"
    /\ ExportAllReturned(err)
    /\ out_paths # <<>>
    /\ \E n \in 1..Len(td_day) :
          /\ Stored(td_day[n]).RT = Num(0) /\ Stored(td_day[n]).OT = Num(0)
          /\ Stored(td_day[n]).Hours = Num(MaxTotal)
          /\ td_day[n].row.RT = Num(RegularCap)
          /\ td_day[n].row.OT = Num(MaxTotal - RegularCap)
          /\ \A path \in Range(out_paths) :
                \A k \in 1..Len(disk[path]) :
                    disk[path][k].PersonNumber # Stored(td_day[n]).EmployeeNumber

====
